---------------------------- MODULE Spec2Model ----------------------------
(***************************************************************************)
(* Optimization4SingleFieldAndWell (py_champ/components/optimization_1f1w) *)
(* as a state machine: one model instance is built by the setup_* calls,   *)
(* solved by solve(), and the water-right record it returns is carried by  *)
(* the caller into the next simulated year's instance.                     *)
(*                                                                         *)
(* Python values are encoded as follows.                                   *)
(*   None            <<>>          an optional value x is <<x>>            *)
(*   tail_method     <<"proportion">>, <<"all">>, <<"value", x>>           *)
(*   a float a/b     <<a, b>>      (caps are compared by cross product)    *)
(*   year / crop indices are 0-based as in the source.                     *)
(* The solver (gurobipy) is an oracle: it reports a status and, when it    *)
(* has an incumbent, some assignment satisfying every constraint that was  *)
(* added to the model.                                                     *)
(***************************************************************************)
EXTENDS Integers, Sequences, FiniteSets, TLC

VARIABLES
    pc,                 \* "idle" (no instance), "ini" (being built), "done" (solve returned), "raised"
    err,                \* the exception that left the last call, or "none"
    n_h,                \* self.n_h (planning horizon)
    field_ids,          \* self.field_ids
    n_fields,           \* self.n_fields
    blocks,             \* the constraint block each setup_constr_field call added to self.model
    field_call,         \* the arguments and the outcome of the last setup_constr_field call
    well_ids,           \* self.well_ids
    n_wells,            \* self.n_wells
    wells,              \* the constraint block each setup_constr_well call added to self.model
    fin,                \* the constraint block each setup_constr_finance call added to self.model
    profit_constr,      \* the n_f of each "c.profit" constraint finish_setup added
    finish_call,        \* the outcome of the last finish_setup call and the counts it saw
    water_right_ids,    \* self.water_right_ids
    n_water_rights,     \* self.n_water_rights
    caps,               \* the water-right constraints added to self.model
    wrs_info,           \* self.wrs_info
    target,             \* self.target (<<>> until setup_obj)
    alphas,             \* self.alphas: consumat_dict["alpha"], metric -> value
    scales,             \* self.scales: consumat_dict["scale"], metric -> float
    vars_Sa,            \* the keys of self.vars_["Sa"] (<<>> until setup_obj)
    fakeSa,             \* the metric of each fakeSa variable added to self.model
    objective,          \* the metric whose fakeSa is the objective of self.model
    sols,               \* self.sols
    decisions,          \* self.decisions
    optimal_obj_value,  \* self.optimal_obj_value
    disposed,           \* whether m.dispose() has released self.model
    m_Status,           \* m.Status after m.optimize() (<<>> before)
    m_SolCount,         \* m.SolCount after m.optimize(): 1 when the solver holds an incumbent
    m_X,                \* the incumbent's values (the X attribute of the variables)
    solve_call,         \* the keep_gp_model argument of the last solve call
    wr_call,            \* the arguments and the outcome of the last setup_constr_wr call
    year,               \* the simulated year of the caller
    carry,              \* the water-right record the caller keeps between years
    applied,            \* the year-0 irrigation depth the caller applied, per simulated year
    short_h             \* whether some year's instance had a horizon < time_window

field_vars == <<field_ids, n_fields, blocks, field_call>>
well_vars == <<well_ids, n_wells, wells>>
finish_vars == <<profit_constr, finish_call>>
wr_vars == <<water_right_ids, n_water_rights, caps, wrs_info, wr_call>>
obj_vars == <<target, alphas, scales, vars_Sa, fakeSa, objective>>
solve_vars == <<sols, decisions, optimal_obj_value, disposed, m_Status, m_SolCount, m_X,
                solve_call>>
caller_vars == <<year, carry, applied, short_h>>

vars == <<pc, err, n_h, field_vars, well_vars, fin, finish_vars, wr_vars, obj_vars,
          solve_vars, caller_vars>>

-----------------------------------------------------------------------------
(* Bounds of the model *)

MaxCallH == 5       \* horizons 1..MaxCallH in the single-call specification
MaxTW == 3          \* time_window 1..MaxTW
MaxDepth == 10      \* wr_depth 1..MaxDepth in the single-call specification
MaxRwr == 2         \* remaining_wr 0..MaxRwr passed to a single call
MaxIrr == 1         \* irrigation depths 0..MaxIrr (the solver's values, discretised)
MaxH == 2           \* horizons 1..MaxH of the single-instance specification
MaxRollH == 3       \* horizons 1..MaxRollH of the rolling specification
MaxYears == 4       \* simulated years of the rolling specification
MaxRollDepth == 2   \* wr_depth 1..MaxRollDepth in the rolling specification
MaxFields == 2      \* setup_constr_field calls per instance
MaxWrs == 2         \* setup_constr_wr calls per solved instance
MaxSetup == 3       \* setup_constr_field and setup_constr_wr calls per solved instance
MaxE == 2           \* energy values 0..MaxE (the solver's values, discretised)
MaxYw == 2          \* a yield ratio of 1 is MaxYw units
MaxArea == 2        \* field_area of the yield specification, ha
MantBits == 4       \* significand bits of the floats of the satisfaction transform
MaxAlpha == 2       \* alpha 1..MaxAlpha of the satisfaction specification
MaxScale == 2       \* scale 1..MaxScale of the satisfaction specification
MaxMetric == 3      \* profit/scale -1..MaxMetric of the satisfaction specification
MaxLift == 2        \* total effective lift 0..MaxLift of the advanced well

(* Program constants *)

NC == 2             \* len(crop_options) of the default ["corn", "others"]

-----------------------------------------------------------------------------
(* Python values *)

None == <<>>
Some(x) == <<x>>
Val(o) == o[1]

Crops == 0..(NC - 1)
Range(lo, hi) == lo..(hi - 1)       \* range(lo, hi)

RECURSIVE SumSeq(_)
SumSeq(s) == IF s = <<>> THEN 0 ELSE s[1] + SumSeq(Tail(s))

\* Exact arithmetic on floats a/b kept as <<a, b>> with b > 0
RECURSIVE Gcd(_, _)
Gcd(a, b) == IF b = 0 THEN a ELSE Gcd(b, a % b)
Abs(a) == IF a < 0 THEN -a ELSE a
Norm(q) == LET g == Gcd(Abs(q[1]), q[2]) IN <<q[1] \div g, q[2] \div g>>
RatAdd(p, q) == Norm(<<p[1] * q[2] + q[1] * p[2], p[2] * q[2]>>)
RatSub(p, q) == Norm(<<p[1] * q[2] - q[1] * p[2], p[2] * q[2]>>)
RatMulInt(p, k) == Norm(<<p[1] * k, p[2]>>)
RatDivInt(p, k) == Norm(<<p[1], p[2] * k>>)

Proportion == <<"proportion">>
All == <<"all">>
Value(x) == <<"value", x>>

-----------------------------------------------------------------------------
(* setup_constr_wr: the constraints *)

\* gp.quicksum(irr_sub[j, h] for j in range(n_c) for h in years) <= num/den
WrConstr(years, num, den) == [idx |-> Crops \X years, num |-> num, den |-> den]

\* Mutant of WrInitial: the initial period adds no cap.
WrInitialNoCap(h, remaining_tw, remaining_wr) ==
    IF remaining_tw # None /\ remaining_wr # None
    THEN [raised |-> Val(remaining_tw) > h,
          caps |-> <<>>,
          start_index |-> Val(remaining_tw),
          remaining_length |-> h - Val(remaining_tw)]
    ELSE [raised |-> FALSE, caps |-> <<>>, start_index |-> 0, remaining_length |-> h]

\* Initial period: the cap over the first remaining_tw years. irr_sub[j, h]
\* raises IndexError for h >= n_h, before the constraint is added.
WrInitial(h, remaining_tw, remaining_wr) ==
    IF remaining_tw # None /\ remaining_wr # None
    THEN [raised |-> Val(remaining_tw) > h,
          caps |-> IF Val(remaining_tw) > h
                   THEN <<>>
                   ELSE <<WrConstr(Range(0, Val(remaining_tw)), Val(remaining_wr), 1)>>,
          start_index |-> Val(remaining_tw),
          remaining_length |-> h - Val(remaining_tw)]
    ELSE [raised |-> FALSE, caps |-> <<>>, start_index |-> 0, remaining_length |-> h]

\* Mutant of WrMiddle: the loop stops one window early (> for >=).
RECURSIVE WrMiddleStrict(_, _, _)
WrMiddleStrict(st, wr_depth, time_window) ==
    IF st.remaining_length > time_window
    THEN WrMiddleStrict([st EXCEPT
                           !.caps = Append(@, WrConstr(Range(st.start_index,
                                                             st.start_index + time_window),
                                                   wr_depth, 1)),
                           !.start_index = @ + time_window,
                           !.remaining_length = @ - time_window],
                        wr_depth, time_window)
    ELSE st

\* Middle period: the while loop over full windows.
RECURSIVE WrMiddle(_, _, _)
WrMiddle(st, wr_depth, time_window) ==
    IF st.remaining_length >= time_window
    THEN WrMiddle([st EXCEPT
                     !.caps = Append(@, WrConstr(Range(st.start_index,
                                                       st.start_index + time_window),
                                             wr_depth, 1)),
                     !.start_index = @ + time_window,
                     !.remaining_length = @ - time_window],
                  wr_depth, time_window)
    ELSE st

\* Mutant of WrTailValue: "proportion" forgets to divide by time_window.
WrTailValueUnscaled(wr_depth, remaining_length, time_window, tail_method) ==
    IF tail_method = Proportion THEN <<wr_depth * remaining_length, 1>>
    ELSE IF tail_method = All THEN <<wr_depth, 1>>
    ELSE <<tail_method[2], 1>>

\* wr_tail of the last period.
WrTailValue(wr_depth, remaining_length, time_window, tail_method) ==
    IF tail_method = Proportion THEN <<wr_depth * remaining_length, time_window>>
    ELSE IF tail_method = All THEN <<wr_depth, 1>>
    ELSE <<tail_method[2], 1>>

\* Last period (if any).
WrTail(st, h, wr_depth, time_window, tail_method) ==
    IF st.remaining_length > 0
    THEN LET t == WrTailValue(wr_depth, st.remaining_length, time_window, tail_method)
         IN  [st EXCEPT !.caps = Append(@, WrConstr(Range(st.start_index, h), t[1], t[2]))]
    ELSE st

\* All constraints of one call.
WrConstraints(h, wr_depth, time_window, remaining_tw, remaining_wr, tail_method) ==
    LET i == WrInitial(h, remaining_tw, remaining_wr)
    IN  IF i.raised THEN i
        ELSE WrTail(WrMiddle(i, wr_depth, time_window), h, wr_depth, time_window,
                    tail_method)

-----------------------------------------------------------------------------
(* setup_constr_wr: the record for the next run *)

\* Mutant of WrRecord: inside a window remaining_tw is not decremented.
WrRecordNoDecrement(wr_depth, time_window, remaining_tw, remaining_wr, tail_method) ==
    IF time_window = 1
    THEN [wr_depth |-> wr_depth, time_window |-> time_window,
          remaining_tw |-> None, remaining_wr |-> None, tail_method |-> tail_method]
    ELSE IF remaining_tw = None
    THEN [wr_depth |-> wr_depth, time_window |-> time_window,
          remaining_tw |-> Some(time_window - 1), remaining_wr |-> Some(wr_depth),
          tail_method |-> tail_method]
    ELSE IF Val(remaining_tw) - 1 = 0
    THEN [wr_depth |-> wr_depth, time_window |-> time_window,
          remaining_tw |-> Some(time_window), remaining_wr |-> None,
          tail_method |-> tail_method]
    ELSE [wr_depth |-> wr_depth, time_window |-> time_window,
          remaining_tw |-> remaining_tw, remaining_wr |-> remaining_wr,
          tail_method |-> tail_method]

WrRecord(wr_depth, time_window, remaining_tw, remaining_wr, tail_method) ==
    IF time_window = 1
    THEN [wr_depth |-> wr_depth, time_window |-> time_window,
          remaining_tw |-> None, remaining_wr |-> None, tail_method |-> tail_method]
    ELSE IF remaining_tw = None
    THEN [wr_depth |-> wr_depth, time_window |-> time_window,
          remaining_tw |-> Some(time_window - 1), remaining_wr |-> Some(wr_depth),
          tail_method |-> tail_method]
    ELSE IF Val(remaining_tw) - 1 = 0
    THEN [wr_depth |-> wr_depth, time_window |-> time_window,
          remaining_tw |-> Some(time_window), remaining_wr |-> None,
          tail_method |-> tail_method]
    ELSE [wr_depth |-> wr_depth, time_window |-> time_window,
          remaining_tw |-> Some(Val(remaining_tw) - 1), remaining_wr |-> remaining_wr,
          tail_method |-> tail_method]

NoCall == [made |-> FALSE]

setup_constr_wr(id, wr_depth, time_window, remaining_tw, remaining_wr, tail_method) ==
    /\ pc = "ini"
    /\ LET r == WrConstraints(n_h, wr_depth, time_window, remaining_tw, remaining_wr,
                              tail_method)
           call == [made |-> TRUE, id |-> id, n_h |-> n_h, wr_depth |-> wr_depth,
                    time_window |-> time_window, remaining_tw |-> remaining_tw,
                    remaining_wr |-> remaining_wr, tail_method |-> tail_method,
                    raised |-> r.raised, caps |-> r.caps]
       IN  /\ wr_call' = call
           /\ IF r.raised
              THEN /\ pc' = "raised"
                   /\ err' = "IndexError"
                   /\ UNCHANGED <<caps, water_right_ids, n_water_rights, wrs_info>>
              ELSE /\ caps' = caps \o r.caps
                   /\ water_right_ids' = Append(water_right_ids, id)
                   /\ n_water_rights' = n_water_rights + 1
                   /\ wrs_info' = (id :> WrRecord(wr_depth, time_window, remaining_tw,
                                                 remaining_wr, tail_method)) @@ wrs_info
                   /\ UNCHANGED <<pc, err>>
    /\ UNCHANGED <<n_h, field_vars, well_vars, fin, finish_vars, obj_vars, solve_vars,
                   caller_vars>>

-----------------------------------------------------------------------------
(* setup_constr_wr followed statement by statement: the initial period, one *)
(* iteration of the full-window while loop per step, then the tail and the  *)
(* record. wr_call carries the locals start_index, remaining_length, c_i.   *)
(* pc is "wr_middle" while control is at the loop head.                     *)

MaxLoop == 8        \* loop iterations the model follows before it stops counting

setup_constr_wr_initial(id, wr_depth, time_window, remaining_tw, remaining_wr, tail_method) ==
    /\ pc = "ini"
    /\ LET i == WrInitial(n_h, remaining_tw, remaining_wr)
       IN  /\ wr_call' = [made |-> TRUE, id |-> id, n_h |-> n_h, wr_depth |-> wr_depth,
                          time_window |-> time_window, remaining_tw |-> remaining_tw,
                          remaining_wr |-> remaining_wr, tail_method |-> tail_method,
                          raised |-> i.raised, caps |-> i.caps,
                          start_index |-> i.start_index,
                          remaining_length |-> i.remaining_length,
                          c_i |-> Len(i.caps)]
           /\ pc' = (IF i.raised THEN "raised" ELSE "wr_middle")
           /\ err' = (IF i.raised THEN "IndexError" ELSE err)
    /\ UNCHANGED <<caps, water_right_ids, n_water_rights, wrs_info>>
    /\ UNCHANGED <<n_h, field_vars, well_vars, fin, finish_vars, obj_vars, solve_vars,
                   caller_vars>>

\* One iteration of "while remaining_length >= time_window".
setup_constr_wr_while ==
    /\ pc = "wr_middle"
    /\ wr_call.remaining_length >= wr_call.time_window
    /\ wr_call.c_i < MaxLoop
    /\ wr_call' = [wr_call EXCEPT
                      !.caps = Append(@, WrConstr(Range(wr_call.start_index,
                                                        wr_call.start_index
                                                            + wr_call.time_window),
                                                  wr_call.wr_depth, 1)),
                      !.c_i = @ + 1,
                      !.start_index = @ + wr_call.time_window,
                      !.remaining_length = @ - wr_call.time_window]
    /\ UNCHANGED <<pc, err, caps, water_right_ids, n_water_rights, wrs_info>>
    /\ UNCHANGED <<n_h, field_vars, well_vars, fin, finish_vars, obj_vars, solve_vars,
                   caller_vars>>

\* The loop exit: the last period, the record, the registry.
setup_constr_wr_tail ==
    /\ pc = "wr_middle"
    /\ wr_call.remaining_length < wr_call.time_window
    /\ LET st == WrTail(wr_call, wr_call.n_h, wr_call.wr_depth, wr_call.time_window,
                        wr_call.tail_method)
       IN  /\ wr_call' = st
           /\ caps' = caps \o st.caps
    /\ water_right_ids' = Append(water_right_ids, wr_call.id)
    /\ n_water_rights' = n_water_rights + 1
    /\ wrs_info' = (wr_call.id :> WrRecord(wr_call.wr_depth, wr_call.time_window,
                                           wr_call.remaining_tw, wr_call.remaining_wr,
                                           wr_call.tail_method)) @@ wrs_info
    /\ pc' = "ini"
    /\ UNCHANGED err
    /\ UNCHANGED <<n_h, field_vars, well_vars, fin, finish_vars, obj_vars, solve_vars,
                   caller_vars>>

-----------------------------------------------------------------------------
(* __init__ and setup_ini_model *)

NoSols == [keys |-> {}]
NoFieldCall == [made |-> FALSE]
NoFinishCall == [made |-> FALSE]
NoSolveCall == [made |-> FALSE]

\* An object on which setup_ini_model has not run: __init__ sets nothing.
NoInstance ==
    /\ pc = "idle"
    /\ err = "none"
    /\ n_h = 0
    /\ field_ids = <<>>
    /\ n_fields = 0
    /\ blocks = <<>>
    /\ field_call = NoFieldCall
    /\ well_ids = <<>>
    /\ n_wells = 0
    /\ wells = <<>>
    /\ fin = <<>>
    /\ profit_constr = <<>>
    /\ finish_call = NoFinishCall
    /\ water_right_ids = <<>>
    /\ n_water_rights = 0
    /\ caps = <<>>
    /\ wrs_info = <<>>
    /\ wr_call = NoCall
    /\ target = None
    /\ alphas = None
    /\ scales = None
    /\ vars_Sa = None
    /\ fakeSa = <<>>
    /\ objective = None
    /\ sols = NoSols
    /\ decisions = None
    /\ optimal_obj_value = None
    /\ disposed = FALSE
    /\ m_Status = None
    /\ m_SolCount = 0
    /\ m_X = None
    /\ solve_call = NoSolveCall

\* The state of a freshly initialised instance with horizon h >= 0.
IniModel(h) ==
    /\ pc = "ini"
    /\ err = "none"
    /\ n_h = h
    /\ field_ids = <<>>
    /\ n_fields = 0
    /\ blocks = <<>>
    /\ field_call = NoFieldCall
    /\ well_ids = <<>>
    /\ n_wells = 0
    /\ wells = <<>>
    /\ fin = <<>>
    /\ profit_constr = <<>>
    /\ finish_call = NoFinishCall
    /\ water_right_ids = <<>>
    /\ n_water_rights = 0
    /\ caps = <<>>
    /\ wrs_info = <<>>
    /\ wr_call = NoCall
    /\ target = None
    /\ alphas = None
    /\ scales = None
    /\ vars_Sa = None
    /\ fakeSa = <<>>
    /\ objective = None
    /\ sols = NoSols
    /\ decisions = None
    /\ optimal_obj_value = None
    /\ disposed = FALSE
    /\ m_Status = None
    /\ m_SolCount = 0
    /\ m_X = None
    /\ solve_call = NoSolveCall

\* setup_ini_model has no test on horizon: self.n_h = horizon is stored and the
\* shared variables are allocated with shape (n_c, n_h) and (n_h). A negative
\* dimension is refused by m.addMVar; whether an empty one (n_h = 0) is refused
\* is left to the library, so both outcomes are possible.
setup_ini_model(h) ==
    /\ pc = "idle"
    /\ \/ h < 1 /\ pc' = "raised" /\ err' \in {"ValueError", "GurobiError"}
       \/ h >= 0 /\ pc' = "ini" /\ err' = "none"
    /\ n_h' = h
    /\ field_ids' = <<>>
    /\ n_fields' = 0
    /\ blocks' = <<>>
    /\ field_call' = NoFieldCall
    /\ well_ids' = <<>>
    /\ n_wells' = 0
    /\ wells' = <<>>
    /\ fin' = <<>>
    /\ profit_constr' = <<>>
    /\ finish_call' = NoFinishCall
    /\ water_right_ids' = <<>>
    /\ n_water_rights' = 0
    /\ caps' = <<>>
    /\ wrs_info' = <<>>
    /\ wr_call' = NoCall
    /\ target' = None
    /\ alphas' = None
    /\ scales' = None
    /\ vars_Sa' = None
    /\ fakeSa' = <<>>
    /\ objective' = None
    /\ sols' = NoSols
    /\ decisions' = None
    /\ optimal_obj_value' = None
    /\ disposed' = FALSE
    /\ m_Status' = None
    /\ m_SolCount' = 0
    /\ m_X' = None
    /\ solve_call' = NoSolveCall
    /\ UNCHANGED <<year, carry, applied>>
    /\ short_h' = (short_h \/ (carry # None /\ h < Val(carry).time_window))

-----------------------------------------------------------------------------
(* setup_constr_field *)

BinVecs == [Crops -> {0, 1}]
RECURSIVE SumVec(_, _)
SumVec(v, n) == IF n = 0 THEN 0 ELSE v[n - 1] + SumVec(v, n - 1)   \* np.sum over n_c entries

ValidFieldTypes == {"rainfed", "irrigated", "optimize"}

\* "Overwrite field_type if i_rainfed is given."
FieldType(field_type, i_rainfed) ==
    IF i_rainfed # None
    THEN IF 2 * SumVec(Val(i_rainfed), NC) > 1 THEN "rainfed" ELSE "irrigated"
    ELSE field_type

\* The names (after "c.<fid>.") of the constraints added before the field-type
\* branch, by the branch for field type ft, and after it.
CropConstrs(i_crop) ==
    (IF i_crop # None THEN {"i_crop_input"} ELSE {}) \cup {"i_crop"}

ModeConstrs(ft, i_rainfed) ==
    IF ft = "rainfed"
    THEN (IF i_rainfed # None THEN {"i_rainfed_input"} ELSE {})
             \cup {"i_rainfed", "irr_rain_fed"}
    ELSE IF ft = "irrigated" THEN {"no_i_rainfed"}
    ELSE IF ft = "optimize" THEN {"i_rainfed", "irr_rainfed"}
    ELSE {}

\* A curve that is at its maximum for every depth, with ymax = 100 for both
\* crops and the default cutoff (min_y_ratio = np.zeros when the table has no
\* sixth column). On a field of 100 ha the selected crop's y is then 1.
FlatCurves ==
    [ymax |-> [c \in Crops |-> 100],
     yw |-> [c \in Crops |-> [d \in 0..MaxIrr |-> MaxYw]],
     min_y_ratio |-> [c \in Crops |-> 0]]

YieldConstrs ==
    {"w(cm)", "w_temp", "w_", "yw_temp", "yw_bi", "yw_", "y_", "y", "irr_depth(cm)",
     "v_c(m-ha)", "v(m-ha)", "y_y"}

\* water_yield_curves enters as the record of what the constraints read from
\* it: ymax[c], min_y_ratio[c] and yw[c][d], the value a*w_**2 + b*w_ + c of
\* crop c's curve at irrigation depth d (w = d + prec_aw[c], w_ = min(w/wmax, 1)).
\* Yield ratios are counted in units of 1/MaxYw.
setup_constr_field(fid, field_area, water_yield_curves, field_type, i_crop, i_rainfed) ==
    /\ pc = "ini"
    /\ field_ids' = Append(field_ids, fid)
    /\ LET ft == FieldType(field_type, i_rainfed)
           call(r, nm) == [made |-> TRUE, fid |-> fid, field_type |-> field_type,
                           i_crop |-> i_crop, i_rainfed |-> i_rainfed,
                           raised |-> r, names |-> nm]
       IN  IF ft \in ValidFieldTypes
           THEN /\ blocks' = Append(blocks,
                                    [fid |-> fid, field_type |-> ft,
                                     field_area |-> field_area,
                                     curves |-> water_yield_curves,
                                     i_crop_input |-> i_crop,
                                     i_rainfed_input |-> i_rainfed,
                                     names |-> CropConstrs(i_crop)
                                                 \cup ModeConstrs(ft, i_rainfed)
                                                 \cup YieldConstrs])
                /\ n_fields' = n_fields + 1
                /\ field_call' = call(FALSE, CropConstrs(i_crop)
                                                \cup ModeConstrs(ft, i_rainfed)
                                                \cup YieldConstrs)
                /\ UNCHANGED <<pc, err>>
           ELSE /\ pc' = "raised"
                /\ err' = "ValueError"
                /\ field_call' = call(TRUE, CropConstrs(i_crop))
                /\ UNCHANGED <<blocks, n_fields>>
    /\ UNCHANGED <<n_h, well_vars, fin, finish_vars, wr_vars, obj_vars, solve_vars,
                   caller_vars>>

-----------------------------------------------------------------------------
(* setup_obj *)

Metrics == {"profit", "yield_rate"}    \* keys of eval_metric_vars in setup_obj

\* A consumat_dict whose "alpha" has the value 1 for the metrics a and whose
\* "scale" has the value 1.0 for the metrics sc; None is the default
\* {"alpha": {"profit": 1}, "scale": {"profit": 0.23 * 50}}.
Consumat(a, sc) == Some([alpha |-> [k \in a |-> 1], scale |-> [k \in sc |-> <<1, 1>>]])
DefaultConsumat ==
    [alpha |-> [k \in {"profit"} |-> 1], scale |-> [k \in {"profit"} |-> <<23, 2>>]]

\* add_metric raises on eval_metric_vars.get(metric)[h] for an unsupported
\* metric (None[h]), and on quicksum(...) / n_h for n_h = 0.
setup_obj_raises(tg) == tg \notin Metrics \/ n_h = 0

setup_obj(tg, consumat_dict) ==
    /\ pc = "ini"
    /\ LET cd == IF consumat_dict = None THEN DefaultConsumat ELSE Val(consumat_dict)
       IN  /\ target' = Some(tg)
           /\ alphas' = Some(cd.alpha)
           /\ scales' = Some(cd.scale)
    /\ fakeSa' = Append(fakeSa, tg)
    /\ IF setup_obj_raises(tg)
       THEN /\ pc' = "raised"
            /\ err' = (IF n_h = 0 THEN "ZeroDivisionError" ELSE "TypeError")
            /\ vars_Sa' = Some({})
            /\ UNCHANGED objective
       ELSE /\ vars_Sa' = Some({tg})
            /\ objective' = Some(tg)
            /\ UNCHANGED <<pc, err>>
    /\ UNCHANGED <<n_h, field_vars, well_vars, fin, finish_vars, wr_vars, solve_vars,
                   caller_vars>>

-----------------------------------------------------------------------------
(* setup_constr_well, setup_constr_finance, finish_setup. The physical       *)
(* parameters of a well enter through the coefficients they determine: for   *)
(* the simple well AaB and A_L_bB of e == AaB*v*v + A_L_bB*v, for the        *)
(* advanced well (class ..._ogCJ) the factor r_g_m_ha_2_m3_eff and the lift  *)
(* l_wt + l_pr that l_t == l_wt + l_cd_l_wd + l_pr cannot go below.          *)

\* Optimization4SingleFieldAndWell.setup_constr_well (and ..._simCJ)
setup_constr_well(wid, pumping_capacity, AaB, A_L_bB) ==
    /\ pc = "ini"
    /\ well_ids' = Append(well_ids, wid)
    /\ wells' = Append(wells, [wid |-> wid, pumping_capacity |-> pumping_capacity,
                               e |-> "vars_.e", AaB |-> AaB, A_L_bB |-> A_L_bB])
    /\ n_wells' = n_wells + 1
    /\ UNCHANGED <<pc, err, n_h, field_vars, fin, finish_vars, wr_vars, obj_vars,
                   solve_vars, caller_vars>>

\* Optimization4SingleFieldAndWell_ogCJ.setup_constr_well: the energy
\* constraint is on the well's own variable e = m.addMVar(name="<wid>.e(PJ)"),
\* recorded as vars_[wid]["e"].
setup_constr_well_ogCJ(wid, pumping_capacity, r_g_m_ha_2_m3_eff, lift) ==
    /\ pc = "ini"
    /\ well_ids' = Append(well_ids, wid)
    /\ wells' = Append(wells, [wid |-> wid, pumping_capacity |-> pumping_capacity,
                               e |-> "wid.e", r_g_m_ha_2_m3_eff |-> r_g_m_ha_2_m3_eff,
                               lift |-> lift])
    /\ n_wells' = n_wells + 1
    /\ UNCHANGED <<pc, err, n_h, field_vars, fin, finish_vars, wr_vars, obj_vars,
                   solve_vars, caller_vars>>

\* crop_price[c] - crop_cost[c] of the finance_dict the drivers pass
CropProfit == [c \in Crops |-> c + 1]

\* cost_e == e * energy_price on vars_["e"]; vars_["rev"], vars_["cost_e"] and
\* vars_["other_cost"] are (re)bound to this call's variables.
setup_constr_finance(energy_price, crop_profit) ==
    /\ pc = "ini"
    /\ fin' = Append(fin, [energy_price |-> energy_price, crop_profit |-> crop_profit])
    /\ UNCHANGED <<pc, err, n_h, field_vars, well_vars, finish_vars, wr_vars, obj_vars,
                   solve_vars, caller_vars>>

\* Mutant of finish_setup_raises: a field count of 0 goes through.
finish_setup_no_division(n_f) ==
    IF fin = <<>> THEN {"KeyError"} ELSE {}

\* The exceptions finish_setup can leave with: vars_["rev"] is missing until
\* setup_constr_finance has run; (rev - cost_e - annual_cost) / n_f divides a
\* matrix expression by the Python int 0 when no field is registered.
finish_setup_raises(n_f) ==
    IF fin = <<>> THEN {"KeyError"}
    ELSE IF n_f = 0 THEN {"ZeroDivisionError", "GurobiError"}
    ELSE {}

finish_setup ==
    /\ pc = "ini"
    /\ finish_call' = [made |-> TRUE, raised |-> finish_setup_raises(n_fields) # {},
                       n_fields |-> n_fields, n_wells |-> n_wells,
                       n_water_rights |-> n_water_rights]
    /\ IF finish_setup_raises(n_fields) # {}
       THEN /\ pc' = "raised"
            /\ err' \in finish_setup_raises(n_fields)
            /\ UNCHANGED profit_constr
       ELSE /\ profit_constr' = Append(profit_constr, n_fields)
            /\ UNCHANGED <<pc, err>>
    /\ UNCHANGED <<n_h, field_vars, well_vars, fin, wr_vars, obj_vars, solve_vars,
                   caller_vars>>

-----------------------------------------------------------------------------
(* The model handed to the solver: the constraints on irr_depth and on each  *)
(* field block's i_crop and i_rainfed. The yield, well and finance           *)
(* constraints bound irr_depth from above (w = irr_depth + prec_aw <= ub_w)  *)
(* and may make the model infeasible; they do not otherwise restrict the     *)
(* variables below.                                                          *)

Horizon == Range(0, n_h)

RECURSIVE SumIdx(_, _)
SumIdx(irr, S) ==
    IF S = {} THEN 0
    ELSE LET p == CHOOSE q \in S : TRUE
         IN  irr[p[1]][p[2]] + SumIdx(irr, S \ {p})

\* Mutant of FieldBinConstrs: the crop-choice row is <= 1 instead of == 1.
FieldBinConstrsAtMostOne(b, ic, ir) ==
    /\ "i_crop_input" \in b.names => ic = Val(b.i_crop_input)
    /\ "i_crop" \in b.names => SumVec(ic, NC) <= 1
    /\ "i_rainfed_input" \in b.names => ir = Val(b.i_rainfed_input)
    /\ "i_rainfed" \in b.names => \A c \in Crops : ic[c] - ir[c] >= 0
    /\ "no_i_rainfed" \in b.names => \A c \in Crops : ir[c] = 0

\* The constraints of block b on the field's own i_crop (ic) and i_rainfed
\* (ir), without the ones that mention irr_depth.
FieldBinConstrs(b, ic, ir) ==
    /\ "i_crop_input" \in b.names => ic = Val(b.i_crop_input)
    /\ "i_crop" \in b.names => SumVec(ic, NC) = 1
    /\ "i_rainfed_input" \in b.names => ir = Val(b.i_rainfed_input)
    /\ "i_rainfed" \in b.names => \A c \in Crops : ic[c] - ir[c] >= 0
    /\ "no_i_rainfed" \in b.names => \A c \in Crops : ir[c] = 0

\* Mutant of FieldIrrConstrs: the "optimize" product constraint is dropped.
FieldIrrConstrsNoProduct(b, ic, ir, irr) ==
    /\ "irr_rain_fed" \in b.names => \A c \in Crops, h \in Horizon : irr[c][h] = 0
    /\ "irr_depth(cm)" \in b.names =>
          \A c \in Crops, h \in Horizon : irr[c][h] * (1 - ic[c]) = 0

\* ... and the ones that mention the shared irr_depth.
FieldIrrConstrs(b, ic, ir, irr) ==
    /\ "irr_rain_fed" \in b.names => \A c \in Crops, h \in Horizon : irr[c][h] = 0
    /\ "irr_rainfed" \in b.names =>
          \A c \in Crops, h \in Horizon : irr[c][h] * ir[c] = 0
    /\ "irr_depth(cm)" \in b.names =>
          \A c \in Crops, h \in Horizon : irr[c][h] * (1 - ic[c]) = 0

\* One water-right constraint: quicksum(...) <= num/den.
WrConstrHolds(k, irr) == SumIdx(irr, k.idx) * k.den <= k.num

Feasible(sol) ==
    /\ \A i \in 1..Len(blocks) :
          /\ FieldBinConstrs(blocks[i], sol.bin[i].i_crop, sol.bin[i].i_rainfed)
          /\ FieldIrrConstrs(blocks[i], sol.bin[i].i_crop, sol.bin[i].i_rainfed,
                             sol.irr_depth)
    /\ \A i \in 1..Len(caps) : WrConstrHolds(caps[i], sol.irr_depth)

\* Enumeration of the feasible assignments: binaries first, then the rows of
\* irr_depth, a row being zero as soon as some block forces it to zero.
BinChoices(b) ==
    {a \in [i_crop : BinVecs, i_rainfed : BinVecs] :
        FieldBinConstrs(b, a.i_crop, a.i_rainfed)}

RECURSIVE Assignments(_)
Assignments(n) ==
    IF n = 0 THEN {<<>>}
    ELSE {Append(s, a) : s \in Assignments(n - 1), a \in BinChoices(blocks[n])}

RowOpen(c, bin) ==
    \A i \in 1..Len(blocks) :
        /\ "irr_depth(cm)" \in blocks[i].names => bin[i].i_crop[c] = 1
        /\ "irr_rain_fed" \notin blocks[i].names
        /\ "irr_rainfed" \in blocks[i].names => bin[i].i_rainfed[c] = 0

Rows(c, bin) ==
    IF RowOpen(c, bin) THEN [Horizon -> 0..MaxIrr] ELSE {[h \in Horizon |-> 0]}

RECURSIVE IrrRows(_, _)
IrrRows(n, bin) ==
    IF n = 0 THEN {<<>>}
    ELSE {Append(s, r) : s \in IrrRows(n - 1, bin), r \in Rows(n - 1, bin)}

IrrSolutions ==
    {sol \in UNION {{[bin |-> bin, irr_depth |-> [c \in Crops |-> rows[c + 1]]] :
                        rows \in IrrRows(NC, bin)} :
                    bin \in Assignments(Len(blocks))} :
        Feasible(sol)}

\* The volume and energy variables. They are followed only on instances with
\* a well or a finance block; without one, e and cost_e are tied to nothing.
\* field_area * cm2m is taken as 1, so that v[h] is the year's irrigation depth.
EnergyTracked == wells # <<>> \/ fin # <<>>

\* v == quicksum(v_c[j, :]), v_c == irr_depth * field_area * cm2m
Volumes(irr) ==
    IF \E i \in 1..Len(blocks) : {"v_c(m-ha)", "v(m-ha)"} \subseteq blocks[i].names
    THEN {[h \in Horizon |-> SumIdx(irr, Crops \X {h})]}
    ELSE [Horizon -> 0..MaxIrr]

\* The constraints of well block k on v, the shared e and the well's own
\* variables l_t and e.
WellConstrs(k, v, e, own) ==
    /\ wells[k].pumping_capacity # None =>
          \A h \in Horizon : v[h] <= Val(wells[k].pumping_capacity)
    /\ wells[k].e = "vars_.e" =>
          \A h \in Horizon : e[h] = wells[k].AaB * v[h] * v[h] + wells[k].A_L_bB * v[h]
    /\ wells[k].e = "wid.e" =>
          \A h \in Horizon :
              /\ own.l_t[h] >= wells[k].lift
              /\ own.e[h] = wells[k].r_g_m_ha_2_m3_eff * v[h] * own.l_t[h]

\* c.cost_e of the finance block vars_["cost_e"] belongs to (the last one)
FinConstrs(e, cost_e) ==
    fin # <<>> => \A h \in Horizon : cost_e[h] = e[h] * fin[Len(fin)].energy_price

\* Enumeration of the energy assignments: a well's own l_t is free from its
\* lift upwards and its own e follows from v and l_t; the shared e follows
\* from v when a simple well constrains it and is free otherwise.
OwnChoices(k, v) ==
    IF wells[k].e = "wid.e"
    THEN {[l_t |-> l,
           e |-> [h \in Horizon |-> wells[k].r_g_m_ha_2_m3_eff * v[h] * l[h]]] :
              l \in [Horizon -> wells[k].lift..MaxLift]}
    ELSE {[l_t |-> [h \in Horizon |-> 0], e |-> [h \in Horizon |-> 0]]}

RECURSIVE OwnAssignments(_, _)
OwnAssignments(n, v) ==
    IF n = 0 THEN {<<>>}
    ELSE {Append(s, a) : s \in OwnAssignments(n - 1, v), a \in OwnChoices(n, v)}

SharedChoices(v) ==
    LET simple == {k \in 1..Len(wells) : wells[k].e = "vars_.e"}
    IN  IF simple = {} THEN [Horizon -> 0..MaxE]
        ELSE LET k == CHOOSE j \in simple : TRUE
             IN  {[h \in Horizon |-> wells[k].AaB * v[h] * v[h] + wells[k].A_L_bB * v[h]]}

CostChoices(e) ==
    IF fin # <<>> THEN {[h \in Horizon |-> e[h] * fin[Len(fin)].energy_price]}
    ELSE {[h \in Horizon |-> 0]}

EnergyChoices(irr) ==
    {en \in UNION {UNION {[v : {v}, e : {e}, cost_e : CostChoices(e),
                           own : OwnAssignments(Len(wells), v)] :
                             e \in SharedChoices(v)} :
                      v \in Volumes(irr)} :
        /\ \A k \in 1..Len(wells) : WellConstrs(k, en.v, en.e, en.own[k])
        /\ FinConstrs(en.e, en.cost_e)}

Solutions ==
    IF EnergyTracked
    THEN UNION {{[bin |-> s.bin, irr_depth |-> s.irr_depth, energy |-> Some(en)] :
                    en \in EnergyChoices(s.irr_depth)} : s \in IrrSolutions}
    ELSE {[bin |-> s.bin, irr_depth |-> s.irr_depth, energy |-> None] : s \in IrrSolutions}

-----------------------------------------------------------------------------
(* The yield block of setup_constr_field, followed where a property speaks   *)
(* of the yield variables. Each constraint is named after the name it is     *)
(* added under ("c.<fid>.yw_bi" is c_yw_bi). A continuous variable that an   *)
(* equality constraint fixes is given as the value the constraint fixes it   *)
(* to; yw_bi, which only an inequality restricts, is any binary satisfying   *)
(* it. A float a/b is <<a, b>>.                                              *)

cm2m == <<1, 100>>

\* yw_bi * (yw_temp - min_y_ratio) + (1 - yw_bi) * (min_y_ratio - yw_temp) >= 0
c_yw_bi(yw_bi, yw_temp, min_y_ratio) ==
    yw_bi * (yw_temp - min_y_ratio) + (1 - yw_bi) * (min_y_ratio - yw_temp) >= 0

\* yw_ == yw_bi * yw_temp
c_yw_(yw_bi, yw_temp) == yw_bi * yw_temp

\* Mutant of c_y_: the yield ratio is not gated by the crop choice.
c_y_ungated(yw, i_crop) == yw

\* y_ == yw_ * i_crop
c_y_(yw, i_crop) == yw * i_crop

\* y == y_ * ymax * field_area * 1e-4, y_ being in units of 1/MaxYw
c_y(y_r, ymax, field_area) == <<y_r * ymax * field_area, 10000 * MaxYw>>

\* v_c == irr_depth * field_area * cm2m
c_v_c(irr, field_area) == <<irr * field_area * cm2m[1], cm2m[2]>>

RECURSIVE SumNum(_, _, _)
\* quicksum(x[j, :] for j in range(n_c)) at year h, for values of one denominator
SumNum(x, h, n) == IF n = 0 THEN 0 ELSE x[n - 1][h][1] + SumNum(x, h, n - 1)

RECURSIVE SumCrops(_, _, _)
SumCrops(x, h, n) == IF n = 0 THEN 0 ELSE x[n - 1][h] + SumCrops(x, h, n - 1)

Grid(S) == [Crops -> [Horizon -> S]]

\* The values of block b's own yield variables and of the shared y, v, y_y
\* that go with the binaries a and the depths irr.
YieldChoices(b, a, irr) ==
    LET yw_temp == [c \in Crops |-> [h \in Horizon |-> b.curves.yw[c][irr[c][h]]]]
    IN  {LET yw == [c \in Crops |-> [h \in Horizon |->
                       c_yw_(yw_bi[c][h], yw_temp[c][h])]]
             y_r == [c \in Crops |-> [h \in Horizon |-> c_y_(yw[c][h], a.i_crop[c])]]
             v_c == [c \in Crops |-> [h \in Horizon |->
                       c_v_c(irr[c][h], b.field_area)]]
             y   == [c \in Crops |-> [h \in Horizon |->
                       c_y(y_r[c][h], b.curves.ymax[c], b.field_area)]]
         IN  [yw_temp |-> yw_temp, yw_bi |-> yw_bi, yw_ |-> yw, y_ |-> y_r,
              v_c |-> v_c, y |-> y,
              v |-> [h \in Horizon |-> <<SumNum(v_c, h, NC), cm2m[2]>>],
              y_y |-> [h \in Horizon |-> SumCrops(y_r, h, NC)]] :
            yw_bi \in {g \in Grid({0, 1}) :
                         \A c \in Crops, h \in Horizon :
                            /\ c_yw_bi(g[c][h], yw_temp[c][h], b.curves.min_y_ratio[c])
                            \* yw_ has lb = 0 and ub = 1
                            /\ c_yw_(g[c][h], yw_temp[c][h]) \in 0..MaxYw}}

RECURSIVE YieldAssignments(_, _)
YieldAssignments(n, s) ==
    IF n = 0 THEN {<<>>}
    ELSE {Append(ys, yl) : ys \in YieldAssignments(n - 1, s),
                           yl \in YieldChoices(blocks[n], s.bin[n], s.irr_depth)}

\* The feasible assignments with the yield variables of every field block:
\* y, v and y_y are the instance's shared variables, so the blocks' constraints
\* on them have to agree.
YieldSolutions ==
    UNION {{[bin |-> s.bin, irr_depth |-> s.irr_depth, energy |-> None, yield |-> ys] :
               ys \in {q \in YieldAssignments(Len(blocks), s) :
                          \A i \in 1..Len(q) :
                             q[i].y = q[1].y /\ q[i].v = q[1].v /\ q[i].y_y = q[1].y_y}} :
           s \in IrrSolutions}

-----------------------------------------------------------------------------
(* The finance block and finish_setup's profit constraint, followed where a  *)
(* property speaks of rev, cost_e, profit and the objective value. Money is  *)
(* exact: cost_tech = 1.876 is 1876/1000.                                    *)

cost_tech == <<1876, 1000>>

\* cost_e == e * energy_price
c_cost_e(e, energy_price) == e * energy_price

RECURSIVE c_rev(_, _, _, _)
\* rev == quicksum(y[j, :] * crop_profit[c] for j, c in enumerate(crop_options))
c_rev(y, h, crop_profit, n) ==
    IF n = 0 THEN <<0, 1>>
    ELSE RatAdd(RatMulInt(y[n - 1][h], crop_profit[n - 1]), c_rev(y, h, crop_profit, n - 1))

\* profit == (rev - cost_e - annual_cost) / n_f
c_profit(rev, cost_e, annual_cost, n_f) ==
    RatDivInt(RatSub(RatSub(rev, <<cost_e, 1>>), annual_cost), n_f)

RECURSIVE SumRat(_, _)
SumRat(x, n) == IF n = 0 THEN <<0, 1>> ELSE RatAdd(x[n - 1], SumRat(x, n - 1))

\* fakeSa == quicksum(metric_var[h] for h in range(n_h)) / n_h, for profit
c_Sa(profit) == RatDivInt(SumRat(profit, n_h), n_h)

\* The values of e, the finance variables, profit and fakeSa.profit that go
\* with the yields y on an instance with a finance block, no well and the
\* target "profit": e is free, cost_e, rev and annual_cost follow from their
\* constraints, and profit has to satisfy every c.profit constraint added.
FinanceChoices(y) ==
    LET f == fin[Len(fin)]
        rev == [h \in Horizon |-> c_rev(y, h, f.crop_profit, NC)]
        profit(e, n_f) ==
            [h \in Horizon |->
                c_profit(rev[h], c_cost_e(e[h], f.energy_price), cost_tech, n_f)]
    IN  {[e |-> e, rev |-> rev,
          cost_e |-> [h \in Horizon |-> c_cost_e(e[h], f.energy_price)],
          other_cost |-> cost_tech,
          profit |-> profit(e, profit_constr[1]),
          fakeSa |-> c_Sa(profit(e, profit_constr[1]))] :
            e \in {g \in [Horizon -> 0..MaxE] :
                     \A i \in 1..Len(profit_constr) :
                        profit(g, profit_constr[i]) = profit(g, profit_constr[1])}}

ProfitSolutions ==
    UNION {{[bin |-> s.bin, irr_depth |-> s.irr_depth, energy |-> None,
             yield |-> s.yield, finance |-> f] : f \in FinanceChoices(s.yield[1].y)} :
           s \in YieldSolutions}

-----------------------------------------------------------------------------
(* solve *)

Max(S) == CHOOSE x \in S : \A y \in S : y <= x
\* np.argmax: the first index holding the maximum
ArgMax(v) == CHOOSE c \in Crops : v[c] = Max({v[d] : d \in Crops})
                                  /\ \A d \in Crops : d < c => v[d] < v[c]

\* sum(sols["irr_depth"][:, 0])
IrrYear0(irr) == SumIdx(irr, Crops \X {0})

\* vars_[fid] is what the last setup_constr_field call for fid recorded.
LastBlock(fid) == Max({i \in 1..Len(blocks) : blocks[i].fid = fid})
FidsWithVars == {blocks[i].fid : i \in 1..Len(blocks)}

\* extract_sol(self.vars_), field entries
ExtractFields(sol) ==
    [fid \in FidsWithVars |->
        [i_crop |-> sol.bin[LastBlock(fid)].i_crop,
         i_rainfed |-> sol.bin[LastBlock(fid)].i_rainfed,
         field_type |-> blocks[LastBlock(fid)].field_type]]

WidsWithVars == {wells[k].wid : k \in {i \in 1..Len(wells) : wells[i].e = "wid.e"}}
LastWell(wid) == Max({k \in 1..Len(wells) : wells[k].wid = wid /\ wells[k].e = "wid.e"})

ExtractedKeys ==
    {"irr_depth", "v", "y", "e", "y_y", "profit"} \cup FidsWithVars \cup WidsWithVars
        \cup (IF fin # <<>> THEN {"rev", "cost_e", "other_cost"} ELSE {})
        \cup (IF vars_Sa # None THEN {"Sa"} ELSE {})
        \cup {"obj", "field_ids", "well_ids", "gp_status", "gp_MIPGap"}

\* extract_sol(self.vars_), the volume and energy entries
ExtractEnergy(sol) ==
    IF sol.energy = None THEN None
    ELSE LET en == Val(sol.energy)
         IN  Some([v |-> en.v, e |-> en.e, cost_e |-> en.cost_e,
                   wells |-> [wid \in WidsWithVars |-> [e |-> en.own[LastWell(wid)].e]]])

\* extract_sol(self.vars_)["Sa"]: the value of each proxy variable
ExtractSa == IF vars_Sa = None THEN <<>> ELSE [mt \in Val(vars_Sa) |-> <<"fakeSa.X", mt>>]

\* "Calculate satisfaction": the exception it leaves with, or "none".
\* self.obj_post_calculation exists only once setup_obj has run;
\* eval_metric_vars holds "profit" alone and divides by scales["profit"];
\* for another metric eval_metric_vars.get(metric) is None and
\* metric_var < 0 raises.
SaError ==
    IF target = None THEN "AttributeError"
    ELSE IF "profit" \notin DOMAIN Val(scales) THEN "KeyError"
    ELSE IF Val(target) \notin DOMAIN Val(alphas) THEN "KeyError"
    ELSE IF Val(target) # "profit" THEN "TypeError"
    ELSE "none"

\* "Calculate satisfaction", the arithmetic. alpha is counted in units of ln 2,
\* so that np.exp(-alpha * x) is 2^-(alpha * x); the floats have MantBits
\* significand bits: below 1 they are the multiples of 2^-MantBits, and
\* 1 - 2^-k rounds to 1.0 once k > MantBits.
RECURSIVE Pow2(_)
Pow2(n) == IF n <= 0 THEN 1 ELSE 2 * Pow2(n - 1)

RatDiv(p, q) == Norm(<<p[1] * q[2], p[2] * q[1]>>)
RatLeq(p, q) == p[1] * q[2] <= q[1] * p[2]

\* Mutant of ClampNegative: negative values are let through.
ClampNone(x) == x

\* metric_var[metric_var < 0] = 0
ClampNegative(x) == IF x[1] < 0 THEN <<0, 1>> ELSE x

\* 1 - np.exp(-alpha * x)
N_yr(alpha, x) ==
    LET ax == RatMulInt(x, alpha)
        k == ax[1] \div ax[2]
    IN  IF k > MantBits THEN <<1, 1>>
        ELSE IF k >= 0 THEN Norm(<<Pow2(MantBits) - Pow2(MantBits - k), Pow2(MantBits)>>)
        ELSE Norm(<<1 - Pow2(-k), 1>>)

\* Sa = np.mean(1 - np.exp(-alpha * metric_var)), metric_var = profit / scale
\* clamped at 0, over the years 0..h-1
Satisfaction(alpha, scale, profit, h) ==
    LET N == [y \in Range(0, h) |-> N_yr(alpha, ClampNegative(RatDiv(profit[y], scale)))]
    IN  RatDivInt(SumRat(N, h), h)

\* The satisfaction step of a successful solve, on its own: self.sols holds the
\* extracted profit, and sols["Sa"][metric] receives the satisfaction value.
CalculateSatisfaction ==
    /\ pc = "satisfaction"
    /\ sols' = [sols EXCEPT !.Sa = Val(target) :>
                   Satisfaction(Val(alphas)[Val(target)], Val(scales)["profit"],
                                sols.profit, n_h)]
    /\ pc' = "done"
    /\ UNCHANGED <<err, n_h, field_vars, well_vars, fin, finish_vars, wr_vars, obj_vars,
                   decisions, optimal_obj_value, disposed, m_Status, m_SolCount, m_X,
                   solve_call, caller_vars>>

\* Mutant of RainfedPost: the re-masking by i_crop is left out.
RainfedPostNoMask(irr, f) ==
    LET forced == IF IrrYear0(irr) <= 0 THEN [c \in Crops |-> 1] ELSE f.i_rainfed
    IN  [f EXCEPT !.i_rainfed = forced]

\* "Update rainfed info" for one field
RainfedPost(irr, f) ==
    LET forced == IF IrrYear0(irr) <= 0 THEN [c \in Crops |-> 1] ELSE f.i_rainfed
    IN  [f EXCEPT !.i_rainfed = [c \in Crops |-> forced[c] * f.i_crop[c]]]

\* Mutant of WrUpdate: the usage is summed along the wrong axis
\* (irr_sub[0, :] for irr_sub[:, 0]).
WrUpdateWrongAxis(info, irr) ==
    [id \in DOMAIN info |->
        IF info[id].remaining_wr # None
        THEN [info[id] EXCEPT !.remaining_wr = Some(Val(@) - SumIdx(irr, {0} \X Horizon))]
        ELSE info[id]]

\* "Update remaining water rights"
WrUpdate(info, irr) ==
    [id \in DOMAIN info |->
        IF info[id].remaining_wr # None
        THEN [info[id] EXCEPT !.remaining_wr = Some(Val(@) - IrrYear0(irr))]
        ELSE info[id]]

\* Mutant of Decision: the rainfed test is < 0 instead of <= 0.
DecisionStrict(f) ==
    [crop_type |-> ArgMax(f.i_crop),
     irr_tech |-> "center pivot LEPA",
     Irrigated |-> (SumVec(f.i_rainfed, NC) < 0)]

\* decisions[fid] of the report
Decision(f) ==
    [crop_type |-> ArgMax(f.i_crop),
     irr_tech |-> "center pivot LEPA",
     Irrigated |-> (SumVec(f.i_rainfed, NC) <= 0)]

Succeeds(status) == status = 2 \/ status = 9

solve(keep_gp_model, status, incumbent) ==
    /\ pc = "ini"
    /\ status = 2 => incumbent # None
    /\ m_Status' = Some(status)
    /\ m_SolCount' = (IF incumbent = None THEN 0 ELSE 1)
    /\ m_X' = incumbent
    /\ solve_call' = [made |-> TRUE, keep_gp_model |-> keep_gp_model]
    /\ IF Succeeds(status)
       THEN IF incumbent = None
            THEN \* m.objVal: no solution to read
                 /\ pc' = "raised"
                 /\ err' = "AttributeError"
                 /\ UNCHANGED <<sols, decisions, optimal_obj_value, wrs_info, disposed>>
            ELSE LET sol == Val(incumbent)
                     extracted == [keys |-> ExtractedKeys,
                                   irr_depth |-> sol.irr_depth,
                                   fields |-> ExtractFields(sol),
                                   energy |-> ExtractEnergy(sol),
                                   Sa |-> ExtractSa,
                                   gp_status |-> status]
                     fields == [fid \in FidsWithVars |->
                                   RainfedPost(sol.irr_depth, extracted.fields[fid])]
                     wrs == WrUpdate(wrs_info, sol.irr_depth)
                 IN  /\ optimal_obj_value' = Some("objVal")
                     /\ IF SaError # "none"
                        THEN /\ pc' = "raised"
                             /\ err' = SaError
                             /\ sols' = extracted
                             /\ UNCHANGED <<decisions, wrs_info, disposed>>
                        ELSE /\ pc' = "done"
                             /\ err' = "none"
                             /\ sols' = [keys |-> ExtractedKeys
                                                   \cup {"water_rights", "gp_report"},
                                         irr_depth |-> sol.irr_depth,
                                         fields |-> fields,
                                         energy |-> extracted.energy,
                                         Sa |-> (Val(target) :> <<"Sa", "profit">>)
                                                    @@ extracted.Sa,
                                         gp_status |-> status,
                                         water_rights |-> wrs]
                             /\ wrs_info' = wrs
                             /\ decisions' = Some([fid \in FidsWithVars |->
                                                      Decision(fields[fid])])
                             /\ disposed' = ~keep_gp_model
       ELSE /\ pc' = "done"
            /\ err' = "none"
            /\ optimal_obj_value' = None
            /\ sols' = [keys |-> {"gp_report"}]
            /\ disposed' = ~keep_gp_model
            /\ UNCHANGED <<decisions, wrs_info>>
    /\ UNCHANGED <<n_h, field_vars, well_vars, fin, finish_vars, water_right_ids,
                   n_water_rights, caps, wr_call, obj_vars, caller_vars>>

-----------------------------------------------------------------------------
(* The single-call specification: one setup_constr_wr call with any         *)
(* arguments on a fresh instance of any horizon.                            *)

WrIds == {"wr1", "wr2"}
TailMethods == {Proportion, All, Value(1)}
OptTW == {None} \cup {Some(t) : t \in 1..MaxTW}
OptRwr == {None} \cup {Some(w) : w \in 0..MaxRwr}

InitWr ==
    /\ \E h \in 1..MaxCallH : IniModel(h)
    /\ year = 0
    /\ carry = None
    /\ applied = <<>>
    /\ short_h = FALSE

WrCall ==
    /\ n_water_rights = 0
    /\ \E wd \in 1..MaxDepth, tw \in 1..MaxTW, rtw \in OptTW, rwr \in OptRwr,
          tm \in TailMethods :
          setup_constr_wr("wr1", wd, tw, rtw, rwr, tm)

NextWr == WrCall

SpecWr == InitWr /\ [][NextWr]_vars

\* The same call followed through its loop, for time_window from 0. A
\* running call is never suspended, so its statements are weakly fair.
LoopInitial ==
    /\ ~wr_call.made
    /\ \E wd \in 1..MaxRollDepth, tw \in 0..MaxTW, rtw \in OptTW, rwr \in OptRwr,
          tm \in {Proportion, All} :
          setup_constr_wr_initial("wr1", wd, tw, rtw, rwr, tm)

NextLoop == LoopInitial \/ setup_constr_wr_while \/ setup_constr_wr_tail

SpecLoop ==
    /\ InitWr /\ [][NextLoop]_vars
    /\ WF_vars(setup_constr_wr_while) /\ WF_vars(setup_constr_wr_tail)

-----------------------------------------------------------------------------
(* The rolling specification: the caller builds and solves one instance per *)
(* simulated year for one field and one water right, applies the year-0     *)
(* irrigation and passes the returned water-right record to the next year.  *)

Statuses == {2, 3, 5, 9}     \* OPTIMAL, INFEASIBLE, UNBOUNDED, TIME_LIMIT
Incumbents == {None} \cup {Some(sol) : sol \in Solutions}

Init ==
    /\ NoInstance
    /\ year = 0
    /\ carry \in {Some([wr_depth |-> wd, time_window |-> tw, remaining_tw |-> None,
                        remaining_wr |-> None, tail_method |-> tm]) :
                    wd \in 1..MaxRollDepth, tw \in 1..MaxTW, tm \in {Proportion, All}}
    /\ applied = <<>>
    /\ short_h = FALSE

YearIni == year < MaxYears /\ \E h \in 1..MaxRollH : setup_ini_model(h)

YearField ==
    /\ n_fields = 0
    /\ \E ft \in ValidFieldTypes : setup_constr_field("f1", 100, FlatCurves, ft, None, None)

YearWr ==
    /\ n_water_rights = 0
    /\ LET r == Val(carry)
       IN  setup_constr_wr("wr1", r.wr_depth, r.time_window, r.remaining_tw,
                           r.remaining_wr, r.tail_method)

YearObj == target = None /\ setup_obj("profit", None)

YearSolve ==
    /\ n_fields = 1 /\ n_water_rights = 1 /\ target # None
    /\ \E incumbent \in Incumbents :
          \E status \in Statuses :
              /\ incumbent # None => Succeeds(status)
              /\ solve(FALSE, status, incumbent)

\* The caller applies the solved year-0 irrigation and keeps the record.
ApplyYear ==
    /\ pc = "done"
    /\ "water_rights" \in sols.keys
    /\ year' = year + 1
    /\ carry' = Some(sols.water_rights["wr1"])
    /\ applied' = Append(applied, IrrYear0(sols.irr_depth))
    /\ pc' = "idle"
    /\ err' = "none"
    /\ n_h' = 0
    /\ field_ids' = <<>>
    /\ n_fields' = 0
    /\ blocks' = <<>>
    /\ field_call' = NoFieldCall
    /\ well_ids' = <<>>
    /\ n_wells' = 0
    /\ wells' = <<>>
    /\ fin' = <<>>
    /\ profit_constr' = <<>>
    /\ finish_call' = NoFinishCall
    /\ water_right_ids' = <<>>
    /\ n_water_rights' = 0
    /\ caps' = <<>>
    /\ wrs_info' = <<>>
    /\ target' = None
    /\ alphas' = None
    /\ scales' = None
    /\ vars_Sa' = None
    /\ fakeSa' = <<>>
    /\ objective' = None
    /\ sols' = NoSols
    /\ decisions' = None
    /\ optimal_obj_value' = None
    /\ disposed' = FALSE
    /\ m_Status' = None
    /\ m_SolCount' = 0
    /\ m_X' = None
    /\ solve_call' = NoSolveCall
    /\ wr_call' = NoCall
    /\ UNCHANGED short_h

Next == YearIni \/ YearField \/ YearWr \/ YearObj \/ YearSolve \/ ApplyYear

Spec == Init /\ [][Next]_vars

-----------------------------------------------------------------------------
(* The single-instance specification: one instance, any fields, water       *)
(* rights and target, solved once.                                          *)

FieldIds == {"f1", "f2"}
UnitVec(k) == [c \in Crops |-> IF c = k THEN 1 ELSE 0]
ZeroVec == [c \in Crops |-> 0]
\* <<field_type, i_crop, i_rainfed>>
FieldInputs ==
    {<<"optimize", None, None>>, <<"irrigated", None, None>>, <<"rainfed", None, None>>,
     <<"optimize", Some(UnitVec(1)), None>>, <<"optimize", None, Some(UnitVec(0))>>,
     <<"fallow", None, None>>}
\* <<wr_depth, time_window, remaining_tw, remaining_wr, tail_method>>
WrInputs ==
    {<<1, 1, None, None, All>>, <<2, 2, None, None, All>>,
     <<2, 3, Some(2), Some(1), Proportion>>}

InitInst ==
    /\ NoInstance
    /\ year = 0
    /\ carry = None
    /\ applied = <<>>
    /\ short_h = FALSE

InstIni == \E h \in 1..MaxH : setup_ini_model(h)

InstField ==
    /\ n_fields < MaxFields
    /\ n_fields + n_water_rights < MaxSetup
    /\ \E fid \in FieldIds, a \in FieldInputs : setup_constr_field(fid, 100, FlatCurves, a[1], a[2], a[3])

InstWr ==
    /\ n_water_rights < MaxWrs
    /\ n_fields + n_water_rights < MaxSetup
    /\ \E id \in WrIds, a \in WrInputs : setup_constr_wr(id, a[1], a[2], a[3], a[4], a[5])

InstObj == target = None /\ \E tg \in Metrics \cup {"revenue"} : setup_obj(tg, None)

InstSolve ==
    \E incumbent \in Incumbents :
        \E keep \in BOOLEAN, status \in Statuses :
            /\ incumbent # None => Succeeds(status)
            /\ solve(keep, status, incumbent)

NextInst == InstIni \/ InstField \/ InstWr \/ InstObj \/ InstSolve

SpecInst == InitInst /\ [][NextInst]_vars

-----------------------------------------------------------------------------
(* The field-call specification: setup_ini_model with any horizon, then one *)
(* setup_constr_field call with any field type, crop input and rainfed      *)
(* indicator.                                                               *)

FieldTypeArgs == ValidFieldTypes \cup {"fallow"}
OptVecs == {None} \cup {Some(v) : v \in BinVecs}

\* horizons from -1: a negative one, zero, and the valid ones
FieldIni == \E h \in -1..MaxH : setup_ini_model(h)

FieldCall ==
    /\ ~field_call.made
    /\ \E ft \in FieldTypeArgs, ic \in OptVecs, ir \in OptVecs :
          setup_constr_field("f1", 100, FlatCurves, ft, ic, ir)

NextField == FieldIni \/ FieldCall

SpecField == InitInst /\ [][NextField]_vars

-----------------------------------------------------------------------------
(* The build specification: one instance and any sequence of at most        *)
(* MaxBuild builder calls on it, finish_setup included, in any order.       *)

MaxBuild == 4

BuildCalls ==
    Len(field_ids) + Len(well_ids) + Len(water_right_ids) + Len(fin) + Len(fakeSa)
        + Len(profit_constr)

BuildIni == \E h \in 1..MaxH : setup_ini_model(h)

BuildField ==
    /\ BuildCalls < MaxBuild
    /\ \E ft \in {"optimize", "fallow"} : setup_constr_field("f1", 100, FlatCurves, ft, None, None)

BuildWell ==
    /\ BuildCalls < MaxBuild
    /\ \/ setup_constr_well("w1", None, 1, 1)
       \/ setup_constr_well_ogCJ("w1", None, 1, 1)

BuildWr ==
    /\ BuildCalls < MaxBuild
    /\ setup_constr_wr("wr1", 1, 1, None, None, All)

BuildFinance ==
    /\ BuildCalls < MaxBuild
    /\ setup_constr_finance(1, CropProfit)

BuildObj ==
    /\ BuildCalls < MaxBuild
    /\ \E tg \in Metrics \cup {"revenue"} : setup_obj(tg, None)

BuildFinish ==
    /\ BuildCalls < MaxBuild
    /\ finish_setup

NextBuild ==
    BuildIni \/ BuildField \/ BuildWell \/ BuildWr \/ BuildFinance \/ BuildObj
        \/ BuildFinish

SpecBuild == InitInst /\ [][NextBuild]_vars

-----------------------------------------------------------------------------
(* The end-to-end specification: one field, one well of either variant,     *)
(* the finance block, a target with its consumat tables, finish_setup and   *)
(* one solve.                                                               *)

MaxPrice == 2

Consumats ==
    {None, Consumat({"yield_rate"}, {"yield_rate"}), Consumat(Metrics, Metrics)}

EnergyIni == \E h \in 1..MaxH : setup_ini_model(h)

EnergyField ==
    /\ n_fields = 0
    /\ \E ft \in {"irrigated", "optimize"} : setup_constr_field("f1", 100, FlatCurves, ft, None, None)

EnergyWell ==
    /\ n_fields = 1 /\ n_wells = 0
    /\ \/ \E pumping_capacity \in {None, Some(1)} :
             setup_constr_well("w1", pumping_capacity, 1, 1)
       \/ \E lift \in 1..MaxLift : setup_constr_well_ogCJ("w1", None, 1, lift)

EnergyFinance ==
    /\ n_wells = 1 /\ fin = <<>>
    /\ \E energy_price \in 1..MaxPrice : setup_constr_finance(energy_price, CropProfit)

EnergyObj ==
    /\ fin # <<>> /\ target = None
    /\ \E tg \in Metrics, cd \in Consumats : setup_obj(tg, cd)

EnergyFinish == target # None /\ profit_constr = <<>> /\ finish_setup

EnergySolve ==
    /\ profit_constr # <<>>
    /\ \E incumbent \in Incumbents :
          \E status \in Statuses :
              /\ incumbent # None => Succeeds(status)
              /\ solve(FALSE, status, incumbent)

NextEnergy ==
    EnergyIni \/ EnergyField \/ EnergyWell \/ EnergyFinance \/ EnergyObj \/ EnergyFinish
        \/ EnergySolve

SpecEnergy == InitInst /\ [][NextEnergy]_vars

-----------------------------------------------------------------------------
(* The yield specification: one field of any area and water-yield curve     *)
(* (the same curve for every crop option), target "profit", one solve that   *)
(* returns any feasible assignment, yield variables included.                *)

YwTables == [0..MaxIrr -> -1..MaxYw]
YieldCurves ==
    {[ymax |-> [c \in Crops |-> c + 1],
      yw |-> [c \in Crops |-> t],
      min_y_ratio |-> mn] : t \in YwTables, mn \in [Crops -> 0..MaxYw - 1]}

YieldIni == \E h \in 1..MaxH : setup_ini_model(h)

YieldField ==
    /\ n_fields = 0
    /\ \E field_area \in 1..MaxArea, wyc \in YieldCurves, ft \in {"irrigated", "optimize"} :
          setup_constr_field("f1", field_area, wyc, ft, None, None)

YieldObj == n_fields = 1 /\ target = None /\ setup_obj("profit", None)

YieldSolve ==
    /\ target # None
    /\ \E x \in YieldSolutions : solve(FALSE, 2, Some(x))

NextYield == YieldIni \/ YieldField \/ YieldObj \/ YieldSolve

SpecYield == InitInst /\ [][NextYield]_vars

-----------------------------------------------------------------------------
(* The profit specification: fields of 100 ha with the flat curve, one       *)
(* finance block, target "profit", one finish_setup, one solve that returns  *)
(* any feasible assignment. A field can be added at any time before solve.   *)

ProfitIni == \E h \in 1..MaxH : setup_ini_model(h)

ProfitField ==
    /\ n_fields < MaxFields
    /\ \E ft \in {"irrigated", "optimize"} :
          setup_constr_field(IF n_fields = 0 THEN "f1" ELSE "f2", 100, FlatCurves, ft,
                             None, None)

ProfitFinance ==
    /\ fin = <<>>
    /\ \E energy_price \in 1..MaxPrice : setup_constr_finance(energy_price, CropProfit)

ProfitObj == fin # <<>> /\ target = None /\ setup_obj("profit", None)

ProfitFinish == target # None /\ n_fields > 0 /\ profit_constr = <<>> /\ finish_setup

ProfitSolve ==
    /\ profit_constr # <<>>
    /\ \E x \in ProfitSolutions : solve(FALSE, 2, Some(x))

NextProfit ==
    ProfitIni \/ ProfitField \/ ProfitFinance \/ ProfitObj \/ ProfitFinish \/ ProfitSolve

SpecProfit == InitInst /\ [][NextProfit]_vars

-----------------------------------------------------------------------------
(* The satisfaction specification: the satisfaction step applied to any      *)
(* alpha, scale and per-year profit of a solved instance with target         *)
(* "profit". The profits are the multiples of scale from -scale to           *)
(* MaxMetric * scale, so that alpha * profit / scale is a whole number.      *)

ProfitVectors(h, scale) ==
    [Range(0, h) -> {RatMulInt(scale, j) : j \in -1..MaxMetric}]

InitSa ==
    \E h \in 1..MaxH, a \in 1..MaxAlpha, sc \in 1..MaxScale :
        \E p \in ProfitVectors(h, <<sc, 1>>) :
            /\ pc = "satisfaction"
            /\ err = "none"
            /\ n_h = h
            /\ field_ids = <<>> /\ n_fields = 0 /\ blocks = <<>>
            /\ field_call = NoFieldCall
            /\ well_ids = <<>> /\ n_wells = 0 /\ wells = <<>>
            /\ fin = <<>> /\ profit_constr = <<>> /\ finish_call = NoFinishCall
            /\ water_right_ids = <<>> /\ n_water_rights = 0 /\ caps = <<>>
            /\ wrs_info = <<>> /\ wr_call = NoCall
            /\ target = Some("profit")
            /\ alphas = Some([k \in {"profit"} |-> a])
            /\ scales = Some([k \in {"profit"} |-> <<sc, 1>>])
            /\ vars_Sa = Some({"profit"})
            /\ fakeSa = <<"profit">>
            /\ objective = Some("profit")
            /\ sols = [keys |-> {"profit", "Sa"}, profit |-> p, Sa |-> <<>>]
            /\ decisions = None
            /\ optimal_obj_value = Some("objVal")
            /\ disposed = FALSE
            /\ m_Status = Some(2)
            /\ m_SolCount = 1
            /\ m_X = None
            /\ solve_call = [made |-> TRUE, keep_gp_model |-> FALSE]
            /\ year = 0 /\ carry = None /\ applied = <<>> /\ short_h = FALSE

NextSa == CalculateSatisfaction

SpecSa == InitSa /\ [][NextSa]_vars

-----------------------------------------------------------------------------
(* Properties of one setup_constr_wr call (checked under SpecWr) *)

Completed == wr_call.made /\ ~wr_call.raised
Carryover == wr_call.remaining_tw # None /\ wr_call.remaining_wr # None
\* the value of a generated cap equals the number x
CapIs(c, x) == c.num = x * c.den
\* years left after the initial period and after the full windows
LeftAfterInitial == IF Carryover THEN wr_call.n_h - Val(wr_call.remaining_tw)
                    ELSE wr_call.n_h
NInitial == IF Carryover THEN 1 ELSE 0
NFull == LeftAfterInitial \div wr_call.time_window
LeftAfterFull == LeftAfterInitial % wr_call.time_window

\* C3: without carryover (remaining_tw or remaining_wr absent) the call
\* generates exactly floor(n_h / tw) caps of wr_depth over the disjoint
\* windows [0,tw), [tw,2tw), ..., each over all crop options, plus one tail
\* cap over the last n_h mod tw years when that number is > 0; for horizon 5,
\* time_window 2, wr_depth 10, "proportion" these are the three caps
\* years 0-1 <= 10, years 2-3 <= 10, year 4 <= 5.
C3_NoCarryoverPartition ==
    (wr_call.made /\ ~Carryover) =>
        LET h == wr_call.n_h
            tw == wr_call.time_window
            k == h \div tw
            l == h % tw
            c == wr_call.caps
        IN  /\ ~wr_call.raised
            /\ Len(c) = k + (IF l > 0 THEN 1 ELSE 0)
            /\ \A i \in 1..k :
                  /\ c[i].idx = Crops \X ((i - 1) * tw .. i * tw - 1)
                  /\ CapIs(c[i], wr_call.wr_depth)
            /\ l > 0 => c[k + 1].idx = Crops \X (k * tw .. h - 1)
            /\ (h = 5 /\ tw = 2 /\ wr_call.wr_depth = 10 /\ wr_call.tail_method = Proportion)
                  => /\ Len(c) = 3
                     /\ c[1].idx = Crops \X {0, 1} /\ CapIs(c[1], 10)
                     /\ c[2].idx = Crops \X {2, 3} /\ CapIs(c[2], 10)
                     /\ c[3].idx = Crops \X {4} /\ CapIs(c[3], 5)

C3_Witness ==
    /\ wr_call.made /\ ~Carryover
    /\ wr_call.n_h = 5 /\ wr_call.time_window = 2 /\ wr_call.wr_depth = 10
    /\ wr_call.tail_method = Proportion
    /\ Len(wr_call.caps) = 3

\* C4 (as claimed): given both remaining_tw and remaining_wr, for every
\* horizon >= 1 and every remaining_tw in 1..time_window-1 the call generates
\* one cap of remaining_wr over all crop options and the first remaining_tw
\* horizon years, and the full windows start at year index remaining_tw.
C4_InitialCapEveryHorizon ==
    (wr_call.made /\ Carryover
       /\ Val(wr_call.remaining_tw) \in 1..(wr_call.time_window - 1)) =>
        LET c == wr_call.caps
            rtw == Val(wr_call.remaining_tw)
            tw == wr_call.time_window
        IN  /\ ~wr_call.raised
            /\ Len(c) >= 1
            /\ c[1].idx = Crops \X (0 .. rtw - 1)
            /\ CapIs(c[1], Val(wr_call.remaining_wr))
            /\ \A i \in 1..NFull :
                  /\ Len(c) >= 1 + i
                  /\ c[1 + i].idx = Crops \X (rtw + (i - 1) * tw .. rtw + i * tw - 1)
                  /\ CapIs(c[1 + i], wr_call.wr_depth)

\* C5: a completed call generates a tail cap only when 0 < L < time_window
\* years are left after the initial and the full windows; the cap is
\* wr_depth * L / time_window for "proportion", wr_depth for "all", the given
\* value otherwise, and it sums over exactly the last L horizon years.
C5_TailCap ==
    Completed =>
        LET c == wr_call.caps
            l == LeftAfterFull
            tm == wr_call.tail_method
        IN  /\ Len(c) = NInitial + NFull + (IF l > 0 THEN 1 ELSE 0)
            /\ l > 0 =>
                 LET t == c[Len(c)]
                 IN  /\ l < wr_call.time_window
                     /\ t.idx = Crops \X (wr_call.n_h - l .. wr_call.n_h - 1)
                     /\ tm = Proportion
                           => t.num * wr_call.time_window = wr_call.wr_depth * l * t.den
                     /\ tm = All => CapIs(t, wr_call.wr_depth)
                     /\ tm \notin {Proportion, All} => CapIs(t, tm[2])

C5_Witness ==
    /\ Completed /\ Carryover
    /\ wr_call.time_window = 3 /\ wr_call.wr_depth = 10
    /\ LeftAfterFull = 1 /\ NFull = 1
    /\ wr_call.tail_method = Proportion
    /\ Len(wr_call.caps) = 3
    /\ wr_call.caps[3].num * 3 = 10 * wr_call.caps[3].den

\* C6: the record a completed call stores has both remaining fields absent
\* when time_window = 1; remaining_wr = wr_depth and remaining_tw =
\* time_window - 1 when time_window >= 2 and remaining_tw was absent;
\* remaining_tw - 1 and the remaining_wr passed in when time_window >= 2 and
\* remaining_tw >= 2; wr_depth, time_window and tail_method are as given.
C6_StoredRecord ==
    Completed =>
        LET r == wrs_info[wr_call.id]
            tw == wr_call.time_window
            rtw == wr_call.remaining_tw
        IN  /\ r.wr_depth = wr_call.wr_depth
            /\ r.time_window = tw
            /\ r.tail_method = wr_call.tail_method
            /\ tw = 1 => r.remaining_tw = None /\ r.remaining_wr = None
            /\ (tw >= 2 /\ rtw = None)
                  => r.remaining_tw = Some(tw - 1) /\ r.remaining_wr = Some(wr_call.wr_depth)
            /\ (tw >= 2 /\ rtw # None /\ Val(rtw) >= 2)
                  => /\ r.remaining_tw = Some(Val(rtw) - 1)
                     /\ r.remaining_wr = wr_call.remaining_wr

C6_Witness ==
    /\ Completed
    /\ wr_call.time_window = 3 /\ wr_call.remaining_tw = Some(2)
    /\ wr_call.remaining_wr = Some(1)
    /\ wrs_info[wr_call.id].remaining_tw = Some(1)

\* C7 (as claimed): a call with time_window >= 2 on the last year of a window
\* (remaining_tw = 1) stores a record with remaining_tw and remaining_wr both
\* absent.
C7_LastYearResetsToAbsent ==
    (Completed /\ wr_call.time_window >= 2 /\ wr_call.remaining_tw = Some(1)) =>
        /\ wrs_info[wr_call.id].remaining_tw = None
        /\ wrs_info[wr_call.id].remaining_wr = None

\* C26 (as claimed): for every horizon >= 1, every time_window >= 2 and every
\* carried-over record with remaining_tw in 1..time_window-1 and remaining_wr
\* present (horizons shorter than remaining_tw included), the call completes
\* without error and every cap it generates sums only over year indices
\* within 0..horizon-1.
C26_CarryoverWithinHorizon ==
    (wr_call.made /\ wr_call.n_h >= 1 /\ wr_call.time_window >= 2 /\ Carryover
       /\ Val(wr_call.remaining_tw) \in 1..(wr_call.time_window - 1)) =>
        /\ ~wr_call.raised
        /\ pc = "ini"
        /\ \A i \in 1..Len(wr_call.caps) :
              wr_call.caps[i].idx \subseteq Crops \X (0..(wr_call.n_h - 1))

-----------------------------------------------------------------------------
(* Properties of the full-window loop (checked under SpecLoop) *)

\* C28 (as claimed): setup_constr_wr terminates for every horizon >= 1,
\* every time_window >= 0 and every carryover input: control always leaves
\* the full-window loop, each iteration strictly decreases the remaining
\* horizon length, and at most horizon full-window caps are generated.
C28_LoopTerminates ==
    /\ (pc = "wr_middle") ~> (pc # "wr_middle")
    /\ [][(pc = "wr_middle" /\ pc' = "wr_middle") =>
             wr_call'.remaining_length < wr_call.remaining_length]_vars
    /\ [](wr_call.made => Len(wr_call.caps) <= wr_call.n_h + 1)

\* The stepwise call ends with the constraints of the one-shot definition.
LoopAgreesWithWrConstraints ==
    (wr_call.made /\ pc = "ini") =>
        wr_call.caps = WrConstraints(wr_call.n_h, wr_call.wr_depth, wr_call.time_window,
                                     wr_call.remaining_tw, wr_call.remaining_wr,
                                     wr_call.tail_method).caps

-----------------------------------------------------------------------------
(* Properties of the rolling use (checked under Spec) *)

Min(a, b) == IF a < b THEN a ELSE b
\* the applied irrigation of block b: simulated years b*tw .. (b+1)*tw - 1
BlockSum(b, tw) == SumSeq(SubSeq(applied, b * tw + 1, Min((b + 1) * tw, Len(applied))))

\* C1 (as claimed): in the rolling use of one water right with time_window
\* >= 2, tail_method "proportion" or "all" and every year's horizon >=
\* time_window, the applied irrigation depth summed over each consecutive
\* block of time_window years never exceeds wr_depth.
C1_BlockWithinWaterRight ==
    LET r == Val(carry)
    IN  (r.time_window >= 2 /\ ~short_h /\ r.tail_method \in {Proportion, All}) =>
            \A b \in 0..(Len(applied) \div r.time_window) :
                BlockSum(b, r.time_window) <= r.wr_depth

\* C2 (as claimed): in the rolling use with time_window >= 2 the call at the
\* first year of every window (year a multiple of time_window) is treated as
\* a first use: the record it stores, before solve subtracts the usage, has
\* remaining_tw = time_window - 1 and remaining_wr = wr_depth.
C2_FreshWindowEveryTimeWindow ==
    (pc = "ini" /\ Completed /\ wr_call.time_window >= 2
       /\ year % wr_call.time_window = 0) =>
        /\ wrs_info[wr_call.id].remaining_tw = Some(wr_call.time_window - 1)
        /\ wrs_info[wr_call.id].remaining_wr = Some(wr_call.wr_depth)

\* C29: after every successful solve, a water right whose remaining_wr is
\* present has remaining_wr >= 0, provided it was registered with tail
\* method "proportion" or "all", wr_depth >= 0 and either no carryover or a
\* carryover with 1 <= remaining_tw <= horizon and remaining_wr >= 0; this
\* holds in every year of a rolling sequence that passes the record forward.
C29_RemainingWrNonNegative ==
    (/\ pc = "done" /\ "water_rights" \in sols.keys
     /\ Completed
     /\ wr_call.tail_method \in {Proportion, All}
     /\ wr_call.wr_depth >= 0
     /\ \/ ~Carryover
        \/ /\ Val(wr_call.remaining_tw) \in 1..wr_call.n_h
           /\ Val(wr_call.remaining_wr) >= 0) =>
        LET r == sols.water_rights[wr_call.id]
        IN  r.remaining_wr # None => Val(r.remaining_wr) >= 0

C29_Witness ==
    /\ pc = "done" /\ "water_rights" \in sols.keys
    /\ year >= 1
    /\ Completed /\ Carryover
    /\ wr_call.remaining_wr = Some(1)
    /\ IrrYear0(sols.irr_depth) = 1
    /\ sols.water_rights[wr_call.id].remaining_wr = Some(0)

-----------------------------------------------------------------------------
(* Properties of solve (checked under SpecInst) *)

SolveSucceeded == pc = "done" /\ "water_rights" \in sols.keys
\* the solved irrigation depth of horizon year 0 summed over all crop options
Year0Depth(irr) == SumVec([c \in Crops |-> irr[c][0]], NC)

\* C8: a successful solve reduces the remaining_wr of every registered water
\* right whose remaining_wr is non-absent by the solved year-0 irrigation
\* depth summed over all crop options, keeps an absent remaining_wr absent,
\* leaves remaining_tw, wr_depth, time_window and tail_method unchanged, and
\* returns the updated records under "water_rights".
C8_SolveUpdatesRemainingWr ==
    [][(pc = "ini" /\ SolveSucceeded') =>
          /\ DOMAIN wrs_info' = DOMAIN wrs_info
          /\ sols'.water_rights = wrs_info'
          /\ \A i \in 1..Len(water_right_ids) :
                LET old == wrs_info[water_right_ids[i]]
                    new == wrs_info'[water_right_ids[i]]
                IN  /\ new.remaining_tw = old.remaining_tw
                    /\ new.wr_depth = old.wr_depth
                    /\ new.time_window = old.time_window
                    /\ new.tail_method = old.tail_method
                    /\ old.remaining_wr = None => new.remaining_wr = None
                    /\ old.remaining_wr # None =>
                          new.remaining_wr =
                              Some(Val(old.remaining_wr) - Year0Depth(sols'.irr_depth))
      ]_vars

C8_Witness ==
    /\ SolveSucceeded
    /\ Year0Depth(sols.irr_depth) = 1
    /\ \E a, b \in DOMAIN wrs_info :
          /\ wrs_info[a].remaining_wr = None
          /\ wrs_info[b].wr_depth = 2 /\ wrs_info[b].remaining_tw = Some(1)
          /\ wrs_info[b].remaining_wr = Some(1)
          /\ sols.water_rights[b].remaining_wr = Some(1)

\* C9 (as claimed): for every solver status other than optimal or time limit
\* with an incumbent, solve returns without raising, the result holds only
\* the textual report (no variable values, no decisions, no water-right
\* records) and the optimal objective value is recorded as absent.
C9_NoSolutionResult ==
    (m_Status # None
       /\ ~(Val(m_Status) = 2 \/ (Val(m_Status) = 9 /\ m_SolCount > 0))) =>
        /\ pc = "done"
        /\ err = "none"
        /\ sols = [keys |-> {"gp_report"}]
        /\ decisions = None
        /\ optimal_obj_value = None

\* C10: in every successful result, for every registered field exactly one
\* crop option c has i_crop[c] = 1, all others have 0, and the crop named in
\* the field's decision summary is that crop option.
C10_OneCropPerField ==
    SolveSucceeded =>
        \A i \in 1..Len(field_ids) :
            LET f == sols.fields[field_ids[i]]
            IN  \E c \in Crops :
                  /\ f.i_crop[c] = 1
                  /\ \A d \in Crops \ {c} : f.i_crop[d] = 0
                  /\ Val(decisions)[field_ids[i]].crop_type = c

C10_Witness ==
    /\ SolveSucceeded
    /\ field_ids = <<"f1", "f2">>
    /\ sols.fields["f1"].i_crop = UnitVec(1)
    /\ sols.fields["f2"].i_crop = UnitVec(1)
    /\ Val(decisions)["f2"].crop_type = 1

\* C11 (as claimed): in every successful result, for every field and every
\* crop option c whose reported i_rainfed[c] is 1, the reported irrigation
\* depth irr_depth[c, h] is 0 in every horizon year h.
C11_RainfedMeansNoIrrigation ==
    SolveSucceeded =>
        \A fid \in FidsWithVars : \A c \in Crops :
            sols.fields[fid].i_rainfed[c] = 1 =>
                \A h \in Horizon : sols.irr_depth[c][h] = 0

\* the values the solver returned for the variables vars_[fid] points to
Solved(fid) == Val(m_X).bin[LastBlock(fid)]

\* C12: rainfed post-processing. For each field the reported i_crop is the
\* solved one; if the solved year-0 irrigation depth summed over the crop
\* options is <= 0 the reported i_rainfed equals the reported i_crop,
\* otherwise reported i_rainfed[c] = solved i_rainfed[c] * i_crop[c]; in both
\* cases reported i_rainfed[c] <= i_crop[c] for every crop option c.
C12_RainfedPostProcessing ==
    SolveSucceeded =>
        \A fid \in FidsWithVars :
            LET f == sols.fields[fid]
            IN  /\ f.i_crop = Solved(fid).i_crop
                /\ Year0Depth(sols.irr_depth) <= 0 => f.i_rainfed = f.i_crop
                /\ Year0Depth(sols.irr_depth) > 0 =>
                      f.i_rainfed = [c \in Crops |->
                                        Solved(fid).i_rainfed[c] * f.i_crop[c]]
                /\ \A c \in Crops : f.i_rainfed[c] <= f.i_crop[c]

C12_Witness ==
    /\ SolveSucceeded
    /\ n_h = 2
    /\ "f1" \in FidsWithVars
    /\ sols.fields["f1"].field_type = "irrigated"
    /\ Year0Depth(sols.irr_depth) = 0
    /\ Solved("f1").i_rainfed = ZeroVec
    /\ sols.fields["f1"].i_crop = UnitVec(1)
    /\ sols.fields["f1"].i_rainfed = UnitVec(1)

\* C30: in every successful result of a single-field model, for each field
\* type, the decision summary's 'Irrigated' flag is true exactly when the
\* solved year-0 irrigation depth summed over the crop options is > 0;
\* irrigation in later horizon years does not affect it.
C30_IrrigatedFlag ==
    (SolveSucceeded /\ n_fields = 1 /\ Len(field_ids) = 1) =>
        Val(decisions)[field_ids[1]].Irrigated = (Year0Depth(Val(m_X).irr_depth) > 0)

C30_Witness ==
    /\ SolveSucceeded /\ n_fields = 1 /\ Len(field_ids) = 1
    /\ n_h = 2
    /\ blocks[1].field_type = "optimize"
    /\ Year0Depth(Val(m_X).irr_depth) = 0
    /\ \E c \in Crops : Val(m_X).irr_depth[c][1] > 0
    /\ ~Val(decisions)[field_ids[1]].Irrigated

\* C22 (as claimed): whenever solve has been invoked with keep_gp_model
\* false the solver model is released by the time control leaves solve, on
\* the success path and on the no-solution path alike; with keep_gp_model
\* true the model is still live after solve.
C22_ModelReleasedUnlessKept ==
    solve_call.made => (disposed = ~solve_call.keep_gp_model)

-----------------------------------------------------------------------------
(* Properties of setup_ini_model and of one setup_constr_field call         *)
(* (checked under SpecField)                                                *)

\* C13 (as claimed): every setup_constr_field call whose field_type argument
\* is not 'rainfed', 'irrigated' or 'optimize' raises, whatever the other
\* arguments are (an i_rainfed indicator included), and registers no field
\* under a substituted mode.
C13_InvalidFieldTypeRaises ==
    (field_call.made /\ field_call.field_type \notin ValidFieldTypes) =>
        /\ field_call.raised
        /\ pc = "raised"
        /\ err = "ValueError"
        /\ blocks = <<>>

\* the mode as the claim states it
ClaimedMode(call) ==
    IF call.i_rainfed = None THEN call.field_type
    ELSE IF 2 * SumVec(Val(call.i_rainfed), NC) > 1 THEN "rainfed" ELSE "irrigated"
\* the constraint that only the branch of one mode adds
ModeMark(mode) ==
    IF mode = "rainfed" THEN "irr_rain_fed"
    ELSE IF mode = "irrigated" THEN "no_i_rainfed"
    ELSE "irr_rainfed"
IrrDepths == [Crops -> [Horizon -> 0..MaxIrr]]

\* C14: field-type selection. Without an i_rainfed indicator the mode is the
\* field_type argument; with one it is 'rainfed' when the indicator's sum is
\* > 0.5 and 'irrigated' otherwise. A completed call adds the constraints of
\* exactly that mode: 'rainfed' forces irr_depth[c, h] = 0 for all crops and
\* years, 'irrigated' forces i_rainfed[c] = 0 for all crops, 'optimize' adds
\* i_rainfed <= i_crop and irr_depth * i_rainfed = 0.
C14_FieldTypeSelection ==
    (field_call.made /\ ~field_call.raised) =>
        LET b == blocks[Len(blocks)]
            mode == ClaimedMode(field_call)
        IN  /\ b.field_type = mode
            /\ b.names \cap {ModeMark(md) : md \in ValidFieldTypes} = {ModeMark(mode)}
            /\ \A ic \in BinVecs, ir \in BinVecs, irr \in IrrDepths :
                  (FieldBinConstrs(b, ic, ir) /\ FieldIrrConstrs(b, ic, ir, irr)) =>
                      /\ mode = "rainfed" =>
                            \A c \in Crops, h \in Horizon : irr[c][h] = 0
                      /\ mode = "irrigated" => \A c \in Crops : ir[c] = 0
                      /\ mode = "optimize" =>
                            /\ \A c \in Crops : ir[c] <= ic[c]
                            /\ \A c \in Crops, h \in Horizon : irr[c][h] * ir[c] = 0

C14_Witness ==
    /\ field_call.made /\ ~field_call.raised
    /\ n_h = 2
    /\ field_call.field_type = "optimize"
    /\ field_call.i_rainfed = Some(UnitVec(0))
    /\ blocks[1].field_type = "rainfed"
    /\ "irr_rain_fed" \in blocks[1].names

\* C15 (as claimed): setup_ini_model fails on every horizon < 1, horizon 0
\* and negative horizons included, so no initialised instance has a horizon
\* below 1.
C15_HorizonAtLeastOne == pc = "ini" => n_h >= 1

\* C27 (as claimed): a setup_constr_field call that raises for an invalid
\* field_type leaves the instance as it was before the call (field_ids,
\* n_fields and the model's constraints), so that n_fields is the length of
\* field_ids in every reachable state.
C27_FailedFieldCallLeavesNoTrace ==
    /\ n_fields = Len(field_ids)
    /\ (field_call.made /\ field_call.raised) =>
          /\ field_ids = <<>>
          /\ field_call.names = {}

-----------------------------------------------------------------------------
(* Properties of setup_obj and finish_setup (checked under SpecBuild) *)

\* C16 (as claimed): a setup_obj call with a target other than 'profit' and
\* 'yield_rate' raises before it changes any state: the instance never
\* records such a target (nor an alpha or scale with it) and never holds a
\* proxy variable for it.
C16_UnsupportedTargetLeavesNoTrace ==
    /\ target # None => Val(target) \in Metrics
    /\ \A i \in 1..Len(fakeSa) : fakeSa[i] \in Metrics
    /\ (target = None) = (alphas = None)
    /\ (target = None) = (scales = None)

\* C18: finish_setup on an instance with zero registered fields raises and
\* adds no profit constraint; no profit constraint ever divides by a field
\* count of 0.
C18_FinishWithoutFieldsRaises ==
    /\ (finish_call.made /\ finish_call.n_fields = 0) =>
          /\ finish_call.raised
          /\ pc = "raised"
          /\ err \in {"KeyError", "ZeroDivisionError", "GurobiError"}
    /\ \A i \in 1..Len(profit_constr) : profit_constr[i] # 0

C18_Witness ==
    /\ finish_call.made /\ finish_call.n_fields = 0
    /\ fin # <<>>
    /\ pc = "raised"
    /\ err = "ZeroDivisionError"
    /\ profit_constr = <<>>

\* C19 (as claimed): after finish_setup has completed, every later
\* setup_constr_field, setup_constr_well or setup_constr_wr call is refused:
\* the registries and counts stay as finish_setup saw them, and the field
\* count in the profit constraint is the number of registered fields.
C19_LockedAfterFinish ==
    (finish_call.made /\ ~finish_call.raised) =>
        /\ n_fields = finish_call.n_fields
        /\ Len(field_ids) = finish_call.n_fields
        /\ n_wells = finish_call.n_wells
        /\ n_water_rights = finish_call.n_water_rights
        /\ profit_constr[Len(profit_constr)] = n_fields

-----------------------------------------------------------------------------
(* Properties of a build followed by solve (checked under SpecEnergy) *)

\* C17 (as claimed): for target 'profit' and for target 'yield_rate', with
\* alpha and scale supplied for the chosen target, a solve that ends with a
\* solution (status optimal, or time limit with an incumbent) completes
\* without error and reports a satisfaction value for that target computed
\* from that target's per-year metric.
C17_BothTargetsEndToEnd ==
    (/\ m_Status # None /\ Succeeds(Val(m_Status)) /\ m_X # None
     /\ Val(target) \in Metrics
     /\ Val(target) \in DOMAIN Val(alphas) /\ Val(target) \in DOMAIN Val(scales)) =>
        /\ pc = "done"
        /\ err = "none"
        /\ Val(target) \in DOMAIN sols.Sa
        /\ sols.Sa[Val(target)] = <<"Sa", Val(target)>>

\* C20 (as claimed): with one well of the advanced variant, in every solved
\* solution cost_e[h] = energy_price * E[h] for every year h, E being the
\* energy the well builder computes (the well's own e).
C20_CostPricesWellEnergy ==
    (SolveSucceeded /\ Len(wells) = 1 /\ wells[1].e = "wid.e" /\ fin # <<>>) =>
        LET en == Val(sols.energy)
        IN  \A h \in Horizon :
                en.cost_e[h] = fin[Len(fin)].energy_price * en.wells[wells[1].wid].e[h]

-----------------------------------------------------------------------------
(* Properties of the yield block (checked under SpecYield) *)

YieldSolved == pc = "done" /\ m_X # None

\* C23: in every feasible assignment, for every crop c and year h, yw_bi is 1
\* when yw_temp is at or above min_y_ratio[c] and 0 when it is below, and yw_
\* is yw_temp at or above the cutoff and 0 below it.
C23_MinYieldCutoff ==
    YieldSolved =>
        LET x == Val(m_X).yield[1]
            mn == blocks[1].curves.min_y_ratio
        IN  \A c \in Crops, h \in Horizon :
               IF x.yw_temp[c][h] >= mn[c]
               THEN x.yw_bi[c][h] = 1 /\ x.yw_[c][h] = x.yw_temp[c][h]
               ELSE x.yw_bi[c][h] = 0 /\ x.yw_[c][h] = 0

\* The part of C23 away from the cutoff itself: yw_bi is 1 strictly above
\* min_y_ratio[c] and 0 strictly below.
CutoffAwayFromBoundary ==
    YieldSolved =>
        LET x == Val(m_X).yield[1]
            mn == blocks[1].curves.min_y_ratio
        IN  \A c \in Crops, h \in Horizon :
               /\ x.yw_temp[c][h] > mn[c] =>
                     x.yw_bi[c][h] = 1 /\ x.yw_[c][h] = x.yw_temp[c][h]
               /\ x.yw_temp[c][h] < mn[c] => x.yw_bi[c][h] = 0 /\ x.yw_[c][h] = 0

\* the selected crop of the solved field
Selected == CHOOSE c \in Crops : Val(m_X).bin[1].i_crop[c] = 1

\* C24: in every feasible assignment a crop option c with i_crop[c] = 0 has
\* irr_depth[c,h] = 0, y_[c,h] = 0 and y[c,h] = 0 in every year h, so that
\* v[h] = irr_depth[s,h] * field_area * 0.01 and y_y[h] = yw_[s,h] for the
\* selected crop s.
C24_CropGating ==
    YieldSolved =>
        LET sol == Val(m_X)
            x == sol.yield[1]
        IN  /\ \A c \in Crops, h \in Horizon :
                  sol.bin[1].i_crop[c] = 0 =>
                      /\ sol.irr_depth[c][h] = 0
                      /\ x.y_[c][h] = 0
                      /\ x.y[c][h][1] = 0
            /\ \A h \in Horizon :
                  /\ x.v[h][1] * 100
                         = sol.irr_depth[Selected][h] * blocks[1].field_area * x.v[h][2]
                  /\ x.y_y[h] = x.yw_[Selected][h]

\* A solved field whose non-selected crop has a positive yield ratio yw_ and
\* whose selected crop is irrigated in the same year.
C24_Witness ==
    /\ YieldSolved
    /\ \E c \in Crops, h \in Horizon :
          /\ Val(m_X).bin[1].i_crop[c] = 0
          /\ Val(m_X).yield[1].yw_[c][h] > 0
          /\ Val(m_X).irr_depth[Selected][h] > 0
          /\ Val(m_X).yield[1].y_y[h] > 0

-----------------------------------------------------------------------------
(* Properties of the profit constraint (checked under SpecProfit) *)

\* rev[h] - cost_e[h] - 1.876 of the solved assignment
NetRevenue(h) ==
    LET f == Val(m_X).finance
    IN  RatSub(RatSub(c_rev(Val(m_X).yield[1].y, h, fin[Len(fin)].crop_profit, NC),
                      <<f.e[h] * fin[Len(fin)].energy_price, 1>>),
               cost_tech)

\* C25: in every solved solution of a finalized model profit[h] is
\* (rev[h] - cost_e[h] - 1.876) / n_fields in every year h, with rev[h] the sum
\* of y[c,h] * (crop_price[c] - crop_cost[c]), cost_e[h] = e[h] * energy_price
\* and n_fields the number of fields registered on the instance, and the
\* objective value is the mean of profit[h] when the target is "profit".
C25_ProfitPerRegisteredField ==
    (pc = "done" /\ m_X # None /\ finish_call.made) =>
        LET f == Val(m_X).finance
        IN  /\ \A h \in Horizon : f.profit[h] = RatDivInt(NetRevenue(h), n_fields)
            /\ Val(target) = "profit" =>
                  /\ objective = Some("profit")
                  /\ RatMulInt(f.fakeSa, n_h) = SumRat(f.profit, n_h)

\* What the profit constraint does hold the solution to: the field count at
\* the time finish_setup ran.
ProfitPerFieldAtFinish ==
    (pc = "done" /\ m_X # None /\ finish_call.made) =>
        LET f == Val(m_X).finance
        IN  /\ \A h \in Horizon :
                  f.profit[h] = RatDivInt(NetRevenue(h), finish_call.n_fields)
            /\ objective = Some("profit")
            /\ RatMulInt(f.fakeSa, n_h) = SumRat(f.profit, n_h)

-----------------------------------------------------------------------------
(* Properties of the satisfaction transform (checked under SpecSa) *)

SaDone == pc = "done" /\ "profit" \in DOMAIN sols.Sa

\* sols["Sa"]["profit"] for the profits p in place of the solved ones
SaOf(p) == Satisfaction(Val(alphas)["profit"], Val(scales)["profit"], p, n_h)

\* p is at least q in every year
Above(p, q) == \A y \in Range(0, n_h) : RatLeq(q[y], p[y])

\* the parts of C21 that do not depend on the upper end of the range: the
\* value is at least 0, is 0 when the metric is <= 0 in every year, and is
\* non-decreasing in each year's metric.
SaZeroAndMonotone ==
    /\ RatLeq(<<0, 1>>, sols.Sa["profit"])
    /\ (\A y \in Range(0, n_h) : sols.profit[y][1] <= 0) => sols.Sa["profit"] = <<0, 1>>
    /\ \A p \in ProfitVectors(n_h, Val(scales)["profit"]) :
          /\ Above(p, sols.profit) => RatLeq(sols.Sa["profit"], SaOf(p))
          /\ Above(sols.profit, p) => RatLeq(SaOf(p), sols.Sa["profit"])

=============================================================================
